---------------------------- MODULE Spec2Model ----------------------------
(***************************************************************************)
(* papdieo: a Wayland wallpaper renderer and its per-monitor supervisor.   *)
(*                                                                         *)
(* The state machines modelled, each with its own specification:           *)
(*   Spec / SpecRotation  the supervisor (main.rs: run_daemon_loop) with   *)
(*                        the media picker (picker.rs) and the renderer    *)
(*                        child processes it spawns, kills and reaps;      *)
(*   SpecVideo            the video driver of one renderer (wallpaper.rs:  *)
(*                        play_video_loop, run_video_pipeline);            *)
(*   SpecPicker           the commands `random` and `next` run one after   *)
(*                        the other on a directory (picker.rs);            *)
(*   SpecSurface          the layer surface of a renderer: configure wait, *)
(*                        frame pool, later events (wallpaper.rs);         *)
(*   SpecSelect, SpecFit, SpecResolve                                      *)
(*                        the functions select_output, render_image_fit    *)
(*                        and configured_or_detected_monitors applied to   *)
(*                        every input of a bounded set;                    *)
(*   SpecProbe, SpecGate  the visibility probe, alone and together with    *)
(*                        the output the renderer selected (wallpaper.rs); *)
(*   SpecFrames           the writes to the frame pool and the commits;    *)
(*   SpecWait, SpecWaitFair, SpecDiscover                                  *)
(*                        the supervisor's interval wait (main.rs) and the *)
(*                        renderer's output discovery (wallpaper.rs).      *)
(***************************************************************************)
EXTENDS Naturals, Sequences, FiniteSets

VARIABLES
    \* ---- supervisor side (main.rs, picker.rs)
    env,            \* "any": every configuration and fault; "rotation": scenario of two monitors
    pc,             \* [Sups -> position of each supervisor process]
    err,            \* [Sups -> the error a supervisor terminated with, "" if none]
    lockHolder,     \* holder of the flock on DAEMON_LOCK_PATH, 0 if unlocked
    cfg,            \* [Sups -> configuration read at the top of the iteration]
    monitors,       \* [Sups -> resolved monitor list of the iteration]
    idx,            \* [Sups -> position of the for loop in monitors]
    monitor_children, \* [Sups -> [MonitorNames -> child id, 0 when no entry]]
    children,       \* process table: sequence of [owner, monitor, status]
    stateFile,      \* content of STATE_FILE: a media file, 0 when the file is absent
    shown,          \* [MonitorNames -> <<media of the previous spawn, media of the last spawn>>],
                    \* recorded in the rotation scenario
    firstTickDone,  \* [Sups -> a full iteration (with prune) has completed]
    ioErr,          \* a read or write of STATE_FILE has failed so far
    lastPruned,     \* the children whose entries the last retain removed from a map
    wpc,            \* where the daemon loop of the wait model is: "off", "tick" or "wait"
    interval,       \* the interval of the iteration, in seconds
    elapsed,        \* wait_for_interval_or_config_change: elapsed, in seconds
    watched,        \* watched_config_path is Some
    observed_config_mtime,  \* the mtime last observed, 0 for None
    mtime,          \* the mtime config_file_modified_time gives now, 0 for None
    touches,        \* how often the mtime has changed
    wakes,          \* the returns of the wait that observed a changed mtime:
                    \* [elapsed, interval, touches]
    \* ---- renderer side (wallpaper.rs)
    caps,           \* [1..NumDescriptors -> what the descriptor's pipeline can do]
    vpc,            \* position of the renderer in play_video_loop / run_video_pipeline
    attempt,        \* index of the descriptor being attempted, 0 before the first
    exit,           \* AppState.exit
    srAtomic,       \* HyprlandVisibility.should_render (the atomic)
    srLocal,        \* local should_render of the current loop iteration
    is_paused,      \* local is_paused of the attempt
    pstate,         \* state of each descriptor's pipeline: "none", "Playing", "Paused", "Null"
    last_error,     \* local last_error of play_video_loop, "" for None
    result,         \* what play_video_loop returned: "" while running, "Ok", or "Err:<msg>"
    attemptRet,     \* what each attempt returned: "", "Ok" or its error
    commits,        \* [1..NumDescriptors -> surface commits made from that descriptor: 0, 1, 2 (= many)]
    firstCommit,    \* descriptor of the first surface commit of the run, 0 if none yet
    lastPull,       \* the last try_pull_sample call: [kind, sr], kind "" if none yet
    flipped,        \* should_render went false -> true in the refresh of this iteration
    pulled,         \* try_pull_sample was called in this iteration
    stateReq,       \* the set_state request of the last loop iteration: [kind, sr, was]
    reads,          \* <<should_render read in the iteration before, in the last iteration>>
    bus_msg,        \* what the last bus.pop_filtered of the iteration gave: [msg, seek, paused]
    afterEos,       \* "seeked" once an Eos was handled in the attempt, "frame" once
                    \* a frame was committed after that, else "none"
    \* ---- the picker commands (picker.rs)
    pdir,           \* the directory the commands run on
    picks,          \* the calls made so far, in order: [kind, path] (path 0: the call failed)
    state0,         \* content of STATE_FILE before the first call
    lastBefore,     \* what the last call read from STATE_FILE (0: nothing)
    \* ---- the layer surface of a renderer (wallpaper.rs)
    spc,            \* position of run_wallpaper: "off", "wait", "pool", "run", "end"
    width,          \* AppState.width
    height,         \* AppState.height
    configured,     \* AppState.configured
    pool,           \* <<width, height>> of the FrameRenderer, <<>> before it is created
    configures,     \* the configure events handled before the FrameRenderer was created
    acks,           \* per such event, [serial, acked]: its serial and the serial
                    \* passed to ack_configure
    is_video,       \* the renderer shows a video, not a still image
    surfCommits,    \* the surface.commit() calls so far: [buffer, writes], writes being the
                    \* successful pool writes since the commit before
    sinceCommit,    \* successful pool writes since the last commit
    lastWrite,      \* result of the last pool write: "none", "Ok" or "Err"
    mmap,           \* the bytes of the FrameRenderer's mapping
    dpc,            \* where run_wallpaper is in the discovery of the outputs
    bound_outputs,  \* AppState.outputs: sequence of [name, description]
    roundtrips,     \* roundtrips made since the outputs were bound
    \* ---- functions applied to an input
    fnArg,          \* the input of the function
    fnRet           \* what the function returned, NoRet before the call

waitVars == <<wpc, interval, elapsed, watched, observed_config_mtime, mtime,
              touches, wakes>>
supVars == <<env, pc, err, lockHolder, cfg, monitors, idx, monitor_children,
             children, stateFile, shown, firstTickDone, ioErr, lastPruned,
             waitVars>>
busVars == <<bus_msg, afterEos>>
vidVars == <<caps, vpc, attempt, exit, srAtomic, srLocal, is_paused, pstate,
             last_error, result, attemptRet, commits, firstCommit, lastPull,
             flipped, pulled, stateReq, reads, busVars>>
pickVars == <<pdir, picks, state0, lastBefore>>
frameVars == <<is_video, surfCommits, sinceCommit, lastWrite, mmap>>
outVars == <<dpc, bound_outputs, roundtrips>>
surfVars == <<spc, width, height, configured, pool, configures, acks, frameVars,
              outVars>>
funVars == <<fnArg, fnRet>>
auxVars == <<pickVars, surfVars, funVars>>
vars == <<supVars, vidVars, auxVars>>

-----------------------------------------------------------------------------
(* Bounds of the model *)

\* most renderer children spawned in one behaviour
MaxSpawns == 4

\* the length of the array `descriptions` of play_video_loop
NumDescriptors == 4
Descriptors == 1..NumDescriptors

\* no message was popped from the bus
NoBus == [msg |-> "none", seek |-> FALSE, paused |-> FALSE]

\* no set_state request was made in the loop iteration
NoRequest == [kind |-> "", sr |-> TRUE, was |-> "Playing"]

\* AppState::new: the geometry before any configure event
DefaultWidth == 1920
DefaultHeight == 1080

\* a function that was not called yet
NoRet == [done |-> FALSE]

-----------------------------------------------------------------------------
(* Generic helpers *)

Range(s) == {s[i] : i \in 1..Len(s)}

Min2(a, b) == IF a < b THEN a ELSE b

\* the elements of a finite set of naturals in increasing order (Vec::sort)
RECURSIVE SortedSeq(_)
SortedSeq(S) ==
    IF S = {} THEN <<>>
    ELSE LET m == CHOOSE x \in S : \A y \in S : x <= y
         IN <<m>> \o SortedSeq(S \ {m})

-----------------------------------------------------------------------------
(* Supervisor: data *)

Sups == {1, 2}

MonitorNames == {"A", "B"}

\* strings as they may stand in the configuration file, before trim()
NoneStr == "<none>"
Trim(s) == CASE s = " A" -> "A"
             [] s = "B " -> "B"
             [] s = "  " -> ""
             [] OTHER    -> s

NameRank(n) == IF n = "A" THEN 1 ELSE 2

\* sort() then dedup() of a collection of names
SortDedup(S) ==
    LET rs == SortedSeq({NameRank(n) : n \in S})
    IN [i \in 1..Len(rs) |-> CHOOSE n \in S : NameRank(n) = rs[i]]

\* .map(trim).filter(not empty) over a list
RECURSIVE TrimNonBlank(_)
TrimNonBlank(s) ==
    IF s = <<>> THEN <<>>
    ELSE (IF Trim(Head(s)) # "" THEN <<Trim(Head(s))>> ELSE <<>>) \o TrimNonBlank(Tail(s))

\* directories of the file system and the supported media files in them
DirFiles == [shared |-> {1, 2}, other |-> {3, 4}, empty |-> {},
             trio |-> {5, 6, 7}, solo |-> {8}]
\* the files of the directories the configurations name
Files == DirFiles.shared \cup DirFiles.other

NoDirs == [k \in {} |-> "shared"]

\* configurations the file may hold when it is read
CfgExplicitShared ==
    [monitors |-> <<"A", "B">>, monitor_wallpaper_dirs |-> NoDirs,
     monitor |-> NoneStr, wallpaper_dir |-> "shared"]
CfgExplicitOwnDirs ==
    [monitors |-> <<"A", "B">>,
     monitor_wallpaper_dirs |-> [k \in {"A", "B"} |-> IF k = "A" THEN "shared" ELSE "other"],
     monitor |-> NoneStr, wallpaper_dir |-> "empty"]
CfgDuplicate ==
    [monitors |-> <<" A", "  ", "A">>, monitor_wallpaper_dirs |-> NoDirs,
     monitor |-> NoneStr, wallpaper_dir |-> "shared"]
CfgFromMap ==
    [monitors |-> <<>>,
     monitor_wallpaper_dirs |-> [k \in {"B "} |-> "other"],
     monitor |-> "A", wallpaper_dir |-> "shared"]
CfgSingle ==
    [monitors |-> <<"  ">>, monitor_wallpaper_dirs |-> NoDirs,
     monitor |-> " A", wallpaper_dir |-> "empty"]
CfgNothing ==
    [monitors |-> <<>>, monitor_wallpaper_dirs |-> NoDirs,
     monitor |-> NoneStr, wallpaper_dir |-> "shared"]
\* the directory of monitor A holds no supported file
CfgEmptyDir ==
    [monitors |-> <<"A", "B">>,
     monitor_wallpaper_dirs |-> [k \in {"A"} |-> "empty"],
     monitor |-> NoneStr, wallpaper_dir |-> "other"]

ScenarioConfigs == {CfgExplicitShared, CfgExplicitOwnDirs}
Configs ==
    ScenarioConfigs \cup {CfgDuplicate, CfgFromMap, CfgSingle, CfgNothing, CfgEmptyDir}

\* what detect_monitors may return: an error, or the sorted names hyprctl reports
Detections ==
    {[ok |-> FALSE, names |-> <<>>], [ok |-> TRUE, names |-> <<>>],
     [ok |-> TRUE, names |-> <<"A">>], [ok |-> TRUE, names |-> <<"A", "B">>]}

NoCfg == CfgNothing
NoChildren == [m \in MonitorNames |-> 0]


-----------------------------------------------------------------------------
(* picker.rs *)

\* list_wallpapers: the supported files of the directory, sorted; <<>> stands
\* for its error (missing directory, or no supported file)
list_wallpapers(dir) == SortedSeq(DirFiles[dir])

\* the anti-repeat filter applies when the first choice equals the persisted path
NeverRepeats(selected, last) == FALSE
RepeatsLast(selected, last) == selected = last

\* pick_random_wallpaper: the paths it may return for a non-empty listing, given
\* what read_to_string(STATE_FILE) gave (0: the read failed)
pick_random_wallpaper(images, last) ==
    UNION { IF Len(images) > 1 /\ last # 0 /\ RepeatsLast(selected, last)
            THEN LET alternatives == {p \in Range(images) : p # last}
                 IN IF alternatives # {} THEN alternatives ELSE {selected}
            ELSE {selected}
          : selected \in Range(images) }

-----------------------------------------------------------------------------
(* main.rs: the supervisor *)

\* configured_or_detected_monitors up to the call of detect_monitors: the
\* configured list, <<>> when nothing is configured
SingleBeforeMap(c) ==
    LET cleaned  == TrimNonBlank(c.monitors)
        from_map == SortDedup({Trim(k) : k \in DOMAIN c.monitor_wallpaper_dirs} \ {""})
    IN IF cleaned # <<>> THEN cleaned
       ELSE IF c.monitor # NoneStr /\ Trim(c.monitor) # "" THEN <<Trim(c.monitor)>>
       ELSE IF from_map # <<>> THEN from_map
       ELSE <<>>
ConfiguredMonitors(c) ==
    LET cleaned  == TrimNonBlank(c.monitors)
        from_map == SortDedup({Trim(k) : k \in DOMAIN c.monitor_wallpaper_dirs} \ {""})
    IN IF cleaned # <<>> THEN cleaned
       ELSE IF from_map # <<>> THEN from_map
       ELSE IF c.monitor # NoneStr /\ Trim(c.monitor) # "" THEN <<Trim(c.monitor)>>
       ELSE <<>>

media_dir_for_monitor(c, monitor) ==
    IF monitor \in DOMAIN c.monitor_wallpaper_dirs
    THEN c.monitor_wallpaper_dirs[monitor]
    ELSE c.wallpaper_dir

\* try_lock_exclusive on the lock file: granted iff no process holds the lock
TryLockAlways(holder) == TRUE
try_lock_exclusive(holder) == holder = 0

\* old_child.kill(); old_child.wait(): the child is dead and reaped, its entry
\* of the process table is gone
Reaped == [owner |-> 0, monitor |-> "", status |-> "reaped"]
KillNothing(ch, c) == ch
KillAndWait(ch, c) == [ch EXCEPT ![c] = Reaped]

\* monitor_children.insert(monitor, child)
InsertNothing(map, m, c) == map
InsertChild(map, m, c) == [map EXCEPT ![m] = c]

\* the predicate of monitor_children.retain
RetainAll(mons, m) == TRUE
Retained(mons, m) == m \in Range(mons)

EnvConfigs == IF env = "rotation" THEN ScenarioConfigs ELSE Configs
Faults == IF env = "rotation" THEN {FALSE} ELSE {FALSE, TRUE}

InLoop(s) == pc[s] \in {"load", "kill", "pick", "prune", "wait", "waitEmpty"}

\* the process ends with an error: its lock file and child map are dropped
\* (dropping a Child neither kills nor waits for the process)
Terminate(s, kind) ==
    /\ pc' = [pc EXCEPT ![s] = "failed"]
    /\ err' = [err EXCEPT ![s] = kind]
    /\ lockHolder' = IF lockHolder = s THEN 0 ELSE lockHolder
    /\ cfg' = [cfg EXCEPT ![s] = NoCfg]
    /\ monitors' = [monitors EXCEPT ![s] = <<>>]
    /\ idx' = [idx EXCEPT ![s] = 0]
    /\ monitor_children' = [monitor_children EXCEPT ![s] = NoChildren]
    /\ firstTickDone' = [firstTickDone EXCEPT ![s] = FALSE]

\* run_daemon_loop up to the loop: acquire_daemon_lock()?
Start(s) ==
    /\ pc[s] = "init"
    /\ IF try_lock_exclusive(lockHolder)
       THEN /\ lockHolder' = s
            /\ pc' = [pc EXCEPT ![s] = "load"]
            /\ UNCHANGED <<err, cfg, monitors, idx, monitor_children, firstTickDone>>
       ELSE Terminate(s, "lock")
    /\ UNCHANGED <<env, lastPruned, children, stateFile, shown, ioErr, waitVars,
                   vidVars, auxVars>>

\* top of the loop: load the configuration and resolve the monitors
LoadCfg(s) ==
    /\ pc[s] = "load"
    /\ \E c \in EnvConfigs, loadFails \in Faults, d \in Detections :
         LET fromConfig == ConfiguredMonitors(c)
             mons == IF fromConfig # <<>> THEN fromConfig ELSE d.names
         IN IF loadFails THEN Terminate(s, "config")
            ELSE IF fromConfig = <<>> /\ ~d.ok THEN Terminate(s, "detect")
            ELSE /\ cfg' = [cfg EXCEPT ![s] = c]
                 /\ monitors' = [monitors EXCEPT ![s] = mons]
                 /\ idx' = [idx EXCEPT ![s] = IF mons = <<>> THEN 0 ELSE 1]
                 /\ pc' = [pc EXCEPT ![s] = IF mons = <<>> THEN "waitEmpty" ELSE "kill"]
                 /\ UNCHANGED <<err, lockHolder, monitor_children, firstTickDone>>
    /\ UNCHANGED <<env, lastPruned, children, stateFile, shown, ioErr, waitVars,
                   vidVars, auxVars>>

\* the position after the body of the for loop for monitors[idx]
LeavesLoop(s) ==
    /\ idx' = [idx EXCEPT ![s] = 0]
    /\ pc' = [pc EXCEPT ![s] = "prune"]
AfterMonitor(s) ==
    /\ idx' = [idx EXCEPT ![s] = IF idx[s] < Len(monitors[s]) THEN idx[s] + 1 ELSE 0]
    /\ pc' = [pc EXCEPT ![s] = IF idx[s] < Len(monitors[s]) THEN "kill" ELSE "prune"]

\* for monitor in monitors: remove, kill and wait for the monitor's old child
KillOld(s) ==
    /\ pc[s] = "kill"
    /\ LET monitor == monitors[s][idx[s]]
           old_child == monitor_children[s][monitor]
       IN IF old_child # 0
          THEN /\ monitor_children' = [monitor_children EXCEPT ![s][monitor] = 0]
               /\ children' = KillAndWait(children, old_child)
          ELSE UNCHANGED <<monitor_children, children>>
    /\ pc' = [pc EXCEPT ![s] = "pick"]
    /\ UNCHANGED <<env, lastPruned, err, lockHolder, cfg, monitors, idx, stateFile, shown,
                   firstTickDone, ioErr, waitVars,
                   vidVars, auxVars>>

\* ... pick a media file, spawn the renderer child, insert it in the map
PickSpawn(s) ==
    /\ pc[s] = "pick"
    /\ LET monitor == monitors[s][idx[s]]
           images == list_wallpapers(media_dir_for_monitor(cfg[s], monitor))
       IN IF images = <<>>
          THEN \* the pick failed: logged, continue with the next monitor
               /\ AfterMonitor(s)
               /\ UNCHANGED <<err, lockHolder, cfg, monitors, monitor_children,
                              children, stateFile, shown, firstTickDone, ioErr>>
          ELSE /\ Len(children) < MaxSpawns
               /\ \E readFails \in Faults, writeFails \in Faults, spawnFails \in Faults :
                  \E media \in pick_random_wallpaper(images,
                                 IF readFails THEN 0 ELSE stateFile) :
                    /\ stateFile' = IF writeFails THEN stateFile ELSE media
                    /\ ioErr' = (ioErr \/ readFails \/ writeFails)
                    /\ IF spawnFails
                       THEN /\ Terminate(s, "spawn")
                            /\ UNCHANGED <<children, shown>>
                       ELSE /\ children' = Append(children,
                                   [owner |-> s, monitor |-> monitor, status |-> "running"])
                            /\ monitor_children' = [monitor_children EXCEPT ![s] =
                                   InsertChild(@, monitor, Len(children) + 1)]
                            /\ shown' = IF env = "rotation"
                                        THEN [shown EXCEPT ![monitor] = <<@[2], media>>]
                                        ELSE shown
                            /\ AfterMonitor(s)
                            /\ UNCHANGED <<err, lockHolder, cfg, monitors, firstTickDone>>
    /\ UNCHANGED <<env, lastPruned, waitVars,
                   vidVars, auxVars>>

\* monitor_children.retain: entries of monitors that left the set are killed,
\* waited for and removed
RECURSIVE KillAll(_, _)
KillAll(ch, cs) ==
    IF cs = {} THEN ch
    ELSE LET c == CHOOSE x \in cs : TRUE IN KillAll(KillAndWait(ch, c), cs \ {c})

Prune(s) ==
    /\ pc[s] = "prune"
    /\ LET gone == {m \in MonitorNames :
                      monitor_children[s][m] # 0 /\ ~Retained(monitors[s], m)}
       IN /\ children' = KillAll(children, {monitor_children[s][m] : m \in gone})
          /\ lastPruned' = {monitor_children[s][m] : m \in gone}
          /\ monitor_children' = [monitor_children EXCEPT ![s] =
                 [m \in MonitorNames |-> IF m \in gone THEN 0 ELSE @[m]]]
    /\ pc' = [pc EXCEPT ![s] = "wait"]
    /\ firstTickDone' = [firstTickDone EXCEPT ![s] = TRUE]
    /\ UNCHANGED <<env, err, lockHolder, cfg, monitors, idx, stateFile, shown,
                   ioErr, waitVars,
                   vidVars, auxVars>>

\* wait_for_interval_or_config_change returns: the next iteration begins
WaitDone(s) ==
    /\ pc[s] \in {"wait", "waitEmpty"}
    /\ pc' = [pc EXCEPT ![s] = "load"]
    /\ UNCHANGED <<env, lastPruned, err, lockHolder, cfg, monitors, idx, monitor_children,
                   children, stateFile, shown, firstTickDone, ioErr, waitVars,
                   vidVars, auxVars>>

\* a renderer child ends by itself (run_wallpaper returns): it stays a zombie
\* of its parent until it is waited for
ChildExit(c) ==
    /\ c \in 1..Len(children)
    /\ children[c].status = "running"
    /\ children' = [children EXCEPT ![c].status = "zombie"]
    /\ UNCHANGED <<env, lastPruned, pc, err, lockHolder, cfg, monitors, idx, monitor_children,
                   stateFile, shown, firstTickDone, ioErr, waitVars,
                   vidVars, auxVars>>

\* the wait model at rest
WaitIdle ==
    /\ wpc = "off"
    /\ interval = 1
    /\ elapsed = 0
    /\ watched = FALSE
    /\ observed_config_mtime = 0
    /\ mtime = 0
    /\ touches = 0
    /\ wakes = <<>>

\* run_daemon_loop before acquire_daemon_lock, and the processes and files
\* around it
InitDaemon ==
    /\ pc = [s \in Sups |-> "init"]
    /\ err = [s \in Sups |-> ""]
    /\ lockHolder = 0
    /\ cfg = [s \in Sups |-> NoCfg]
    /\ monitors = [s \in Sups |-> <<>>]
    /\ idx = [s \in Sups |-> 0]
    /\ monitor_children = [s \in Sups |-> NoChildren]
    /\ children = <<>>
    /\ stateFile \in {0} \cup Files
    /\ shown = [m \in MonitorNames |-> <<0, 0>>]
    /\ firstTickDone = [s \in Sups |-> FALSE]
    /\ ioErr = FALSE
    /\ lastPruned = {}

InitSup == InitDaemon /\ WaitIdle

\* the renderer side at rest, for the specifications of the supervisor
VidIdle ==
    /\ caps = [i \in Descriptors |-> "works"]
    /\ vpc = "idle"
    /\ attempt = 0
    /\ exit = FALSE
    /\ srAtomic = TRUE
    /\ srLocal = TRUE
    /\ is_paused = FALSE
    /\ pstate = [i \in Descriptors |-> "none"]
    /\ last_error = ""
    /\ result = ""
    /\ attemptRet = [i \in Descriptors |-> ""]
    /\ commits = [i \in Descriptors |-> 0]
    /\ firstCommit = 0
    /\ lastPull = [kind |-> "", sr |-> TRUE]
    /\ flipped = FALSE
    /\ pulled = FALSE
    /\ stateReq = NoRequest
    /\ reads = <<"none", "none">>
    /\ bus_msg = NoBus
    /\ afterEos = "none"

\* the picker commands, the layer surface and the function calls at rest
PickIdle ==
    /\ pdir = "shared"
    /\ picks = <<>>
    /\ state0 = 0
    /\ lastBefore = 0

SurfIdle ==
    /\ spc = "off"
    /\ width = DefaultWidth
    /\ height = DefaultHeight
    /\ configured = FALSE
    /\ pool = <<>>
    /\ configures = <<>>
    /\ acks = <<>>
    /\ is_video = FALSE
    /\ surfCommits = <<>>
    /\ sinceCommit = 0
    /\ lastWrite = "none"
    /\ mmap = <<>>
    /\ dpc = "off"
    /\ bound_outputs = <<>>
    /\ roundtrips = 0

FunIdle == fnArg = NoRet /\ fnRet = NoRet

AuxIdle == PickIdle /\ SurfIdle /\ FunIdle

Init == env = "any" /\ InitSup /\ VidIdle /\ AuxIdle

InitRotation == env = "rotation" /\ InitSup /\ VidIdle /\ AuxIdle

Next ==
    \/ \E s \in Sups : Start(s)
    \/ \E s \in Sups : LoadCfg(s)
    \/ \E s \in Sups : KillOld(s)
    \/ \E s \in Sups : PickSpawn(s)
    \/ \E s \in Sups : Prune(s)
    \/ \E s \in Sups : WaitDone(s)
    \/ \E c \in 1..MaxSpawns : ChildExit(c)

Spec == Init /\ [][Next]_vars

SpecRotation == InitRotation /\ [][Next]_vars

-----------------------------------------------------------------------------
(* wallpaper.rs: the video driver of a renderer *)

\* what the pipeline of a descriptor can do on this machine:
\*   "nobuild"  gst::parse::launch fails (a decoder element is missing)
\*   "mute"     it builds and starts, and delivers no sample
\*   "works"    it delivers a first sample within the 2 s deadline
Capabilities == {"nobuild", "mute", "works"}

ErrBuild    == "failed to build gstreamer pipeline"
ErrInitial  == "no initial video frame from pipeline"
ErrWrite    == "video frame stride exceeds buffer"
ErrBus      == "video pipeline error"
ErrDispatch == "failed dispatching Wayland events"
ErrNoFrames == "no video frames decoded; install GStreamer codec plugins"

IsErr(r) == r \notin {"", "Ok"}

\* sink.try_pull_sample(2 s) of the attempt protocol gives Some(sample)
AnySampleArrives(c) == TRUE
InitialSampleArrives(c) == c = "works"

\* the state the steady-state loop requests of the pipeline after reading
\* should_render, "" when it requests none
RequestEveryIteration(should_render, paused) ==
    IF should_render THEN "Playing" ELSE "Paused"
StateRequest(should_render, paused) ==
    IF should_render /\ paused THEN "Playing"
    ELSE IF ~should_render /\ ~paused THEN "Paused"
    ELSE ""

\* the steady-state loop pulls a sample iff the should_render it read is true
PullAlways(should_render) == TRUE
ShouldPull(should_render) == should_render

\* the match on the attempt's result, in the for loop of play_video_loop:
\* "Ok" return Ok(()), "next" go on with the next descriptor
LadderIgnoresExit(ret, exitFlag) == IF ret = "Ok" THEN "Ok" ELSE "next"
LadderStep(ret, exitFlag) ==
    IF ret = "Ok" THEN "Ok"
    ELSE IF exitFlag THEN "Ok" ELSE "next"

\* the descriptor the for loop of play_video_loop takes after descriptor i
RestartsLadder(i) == 1
NextDescriptor(i) == i + 1

\* last_error.unwrap_or_else(|| anyhow!("no video frames decoded; ..."))
FinalError(le) == IF le = "" THEN ErrNoFrames ELSE le

\* the attempt returns r to play_video_loop
Return(r) ==
    /\ attemptRet' = [attemptRet EXCEPT ![attempt] = r]
    /\ vpc' = "returned"

\* write_sample_frame succeeded: attach, damage_buffer, commit
Commit ==
    /\ commits' = [commits EXCEPT ![attempt] = Min2(@ + 1, 2)]
    /\ firstCommit' = IF firstCommit = 0 THEN attempt ELSE firstCommit

\* play_video_loop: the for loop takes its first descriptor
StartLadder ==
    /\ vpc = "start"
    /\ attempt' = 1
    /\ vpc' = "build"
    /\ UNCHANGED <<caps, exit, srAtomic, srLocal, is_paused, pstate, last_error,
                   result, attemptRet, commits, firstCommit, lastPull, flipped,
                   pulled, stateReq, reads, busVars,
                   supVars, auxVars>>

\* run_video_pipeline: parse::launch, by_name("sink"), bus, set_state(Playing)
Build ==
    /\ vpc = "build"
    /\ IF caps[attempt] = "nobuild"
       THEN /\ Return(ErrBuild)
            /\ UNCHANGED pstate
       ELSE /\ pstate' = [pstate EXCEPT ![attempt] = "Playing"]
            /\ vpc' = "initial"
            /\ UNCHANGED attemptRet
    /\ bus_msg' = NoBus
    /\ afterEos' = "none"
    /\ UNCHANGED <<caps, attempt, exit, srAtomic, srLocal, is_paused, last_error,
                   result, commits, firstCommit, lastPull, flipped, pulled, stateReq, reads,
                   supVars, auxVars>>

\* the initial sample: pulled with a 2 s deadline, written and committed
InitialPull ==
    /\ vpc = "initial"
    /\ lastPull' = [kind |-> "initial", sr |-> srAtomic]
    /\ IF ~InitialSampleArrives(caps[attempt])
       THEN /\ pstate' = [pstate EXCEPT ![attempt] = "Null"]
            /\ Return(ErrInitial)
            /\ UNCHANGED <<commits, firstCommit, is_paused>>
       ELSE \E writeOk \in BOOLEAN :
              IF writeOk
              THEN /\ Commit
                   /\ is_paused' = FALSE
                   /\ vpc' = "top"
                   /\ UNCHANGED <<pstate, attemptRet>>
              ELSE /\ Return(ErrWrite)
                   /\ UNCHANGED <<pstate, commits, firstCommit, is_paused>>
    /\ stateReq' = NoRequest
    /\ reads' = <<"none", "none">>
    /\ UNCHANGED <<caps, attempt, exit, srAtomic, srLocal, last_error, result,
                   flipped, pulled, busVars, supVars, auxVars>>

\* while !state.exit: refresh the probe when 500 ms have passed, read
\* should_render, and request Playing or Paused when it changed
LoopTop ==
    /\ vpc = "top"
    /\ IF exit
       THEN /\ pstate' = [pstate EXCEPT ![attempt] = "Null"]
            /\ Return("Ok")
            /\ UNCHANGED <<srAtomic, srLocal, is_paused, flipped, pulled,
                           stateReq, reads>>
       ELSE \E due \in BOOLEAN, query \in {"failed", "true", "false"} :
              LET sr == IF due /\ query # "failed" THEN query = "true" ELSE srAtomic
                  request == StateRequest(sr, is_paused)
              IN /\ srAtomic' = sr
                 /\ srLocal' = sr
                 /\ flipped' = (~srAtomic /\ sr)
                 /\ pulled' = FALSE
                 /\ stateReq' = [kind |-> request, sr |-> sr, was |-> pstate[attempt]]
                 /\ reads' = <<reads[2], IF sr THEN "true" ELSE "false">>
                 /\ IF request = "Playing"
                    THEN /\ pstate' = [pstate EXCEPT ![attempt] = "Playing"]
                         /\ is_paused' = FALSE
                    ELSE IF request = "Paused"
                    THEN /\ pstate' = [pstate EXCEPT ![attempt] = "Paused"]
                         /\ is_paused' = TRUE
                    ELSE UNCHANGED <<pstate, is_paused>>
                 /\ vpc' = "act"
                 /\ UNCHANGED attemptRet
    /\ UNCHANGED <<caps, attempt, exit, last_error, result, commits, firstCommit,
                   lastPull, busVars, supVars, auxVars>>

\* if should_render: try_pull_sample(frame timeout), write and commit the
\* sample if one came; else sleep 120 ms
PullOrSleep ==
    /\ vpc = "act"
    /\ IF ShouldPull(srLocal)
       THEN /\ lastPull' = [kind |-> "steady", sr |-> srAtomic]
            /\ pulled' = TRUE
            /\ \E sample \in BOOLEAN, writeOk \in BOOLEAN :
                 IF sample /\ ~is_paused
                 THEN IF writeOk
                      THEN /\ Commit
                           /\ afterEos' = IF afterEos = "none" THEN "none" ELSE "frame"
                           /\ vpc' = "bus"
                           /\ UNCHANGED attemptRet
                      ELSE /\ Return(ErrWrite)
                           /\ UNCHANGED <<commits, firstCommit, afterEos>>
                 ELSE /\ vpc' = "bus"
                      /\ UNCHANGED <<commits, firstCommit, attemptRet, afterEos>>
       ELSE /\ vpc' = "bus"
            /\ UNCHANGED <<lastPull, pulled, commits, firstCommit, attemptRet,
                           afterEos>>
    /\ UNCHANGED <<caps, attempt, exit, srAtomic, srLocal, is_paused, pstate,
                   last_error, result, flipped, stateReq, reads, bus_msg,
                   supVars, auxVars>>

\* the match on msg.type_(): what the arm of a message does, "return" (set
\* the pipeline to Null and return the error), "seek" (seek_simple(FLUSH |
\* KEY_UNIT, 0)) or "" (nothing)
EosEndsAttempt(msg) == IF msg = "none" THEN "" ELSE "return"
BusArm(msg) ==
    IF msg = "Error" THEN "return"
    ELSE IF msg = "Eos" THEN "seek"
    ELSE ""

\* bus.pop_filtered(Error, Eos)
Bus ==
    /\ vpc = "bus"
    /\ \E msg \in {"none", "Error", "Eos"} :
         /\ bus_msg' = [msg |-> msg, seek |-> BusArm(msg) = "seek", paused |-> is_paused]
         /\ afterEos' = IF BusArm(msg) = "seek" /\ afterEos = "none"
                        THEN "seeked" ELSE afterEos
         /\ IF BusArm(msg) = "return"
            THEN /\ pstate' = [pstate EXCEPT ![attempt] = "Null"]
                 /\ Return(ErrBus)
            ELSE /\ vpc' = "dispatch"
                 /\ UNCHANGED <<pstate, attemptRet>>
    /\ UNCHANGED <<caps, attempt, exit, srAtomic, srLocal, is_paused, last_error,
                   result, commits, firstCommit, lastPull, flipped, pulled, stateReq, reads,
                   supVars, auxVars>>

\* event_queue.dispatch_pending(state)?: a closed event sets state.exit
Dispatch ==
    /\ vpc = "dispatch"
    /\ \E closed \in BOOLEAN, failed \in BOOLEAN :
         /\ exit' = (exit \/ closed)
         /\ IF failed
            THEN Return(ErrDispatch)
            ELSE /\ vpc' = "top"
                 /\ UNCHANGED attemptRet
    /\ bus_msg' = NoBus
    /\ UNCHANGED <<caps, attempt, srAtomic, srLocal, is_paused, pstate, last_error,
                   result, commits, firstCommit, lastPull, flipped, pulled, stateReq, reads,
                   afterEos, supVars, auxVars>>

\* play_video_loop: the match on what run_video_pipeline returned
Ladder ==
    /\ vpc = "returned"
    /\ LET ret == attemptRet[attempt]
           le  == IF IsErr(ret) THEN ret ELSE last_error
           step == LadderStep(ret, exit)
       IN /\ last_error' = le
          /\ IF step = "Ok"
             THEN /\ result' = "Ok"
                  /\ vpc' = "done"
                  /\ UNCHANGED attempt
             ELSE IF attempt < NumDescriptors
             THEN /\ attempt' = NextDescriptor(attempt)
                  /\ vpc' = "build"
                  /\ UNCHANGED result
             ELSE /\ result' = FinalError(le)
                  /\ vpc' = "done"
                  /\ UNCHANGED attempt
    /\ UNCHANGED <<caps, exit, srAtomic, srLocal, is_paused, pstate, attemptRet,
                   commits, firstCommit, lastPull, flipped, pulled, stateReq, reads,
                   busVars, supVars, auxVars>>

\* the renderer enters play_video_loop: the surface is configured (a closed
\* event may already have been dispatched), the probe holds its first reading
InitVideo ==
    /\ caps \in [Descriptors -> Capabilities]
    /\ vpc = "start"
    /\ attempt = 0
    /\ exit \in BOOLEAN
    /\ srAtomic \in BOOLEAN
    /\ srLocal = TRUE
    /\ is_paused = FALSE
    /\ pstate = [i \in Descriptors |-> "none"]
    /\ last_error = ""
    /\ result = ""
    /\ attemptRet = [i \in Descriptors |-> ""]
    /\ commits = [i \in Descriptors |-> 0]
    /\ firstCommit = 0
    /\ lastPull = [kind |-> "", sr |-> TRUE]
    /\ flipped = FALSE
    /\ pulled = FALSE
    /\ stateReq = NoRequest
    /\ reads = <<"none", "none">>
    /\ bus_msg = NoBus
    /\ afterEos = "none"

\* the supervisor side at rest, for the specification of the renderer
SupOff == env = "any" /\ InitSup /\ stateFile = 0
SupIdle == SupOff /\ AuxIdle

NextVideo ==
    \/ StartLadder
    \/ Build
    \/ InitialPull
    \/ LoopTop
    \/ PullOrSleep
    \/ Bus
    \/ Dispatch
    \/ Ladder

VideoInit == InitVideo /\ SupIdle

SpecVideo == VideoInit /\ [][NextVideo]_vars

-----------------------------------------------------------------------------
(* wallpaper.rs: the choice of the output *)

\* most outputs the compositor advertises
MaxOutputs == 2

\* strings are sequences of characters; <<>> stands for None
NoText == <<>>

\* u8::to_ascii_lowercase
ToLowerChar(c) == CASE c = "D" -> "d"
                    [] c = "P" -> "p"
                    [] c = "A" -> "a"
                    [] c = "B" -> "b"
                    [] OTHER   -> c

\* str::to_ascii_lowercase
to_ascii_lowercase(t) == [i \in 1..Len(t) |-> ToLowerChar(t[i])]

\* str::eq_ignore_ascii_case
eq_ignore_ascii_case(a, b) == to_ascii_lowercase(a) = to_ascii_lowercase(b)

\* str::contains
contains(t, pat) ==
    \E k \in 0..(Len(t) - Len(pat)) : SubSeq(t, k + 1, k + Len(pat)) = pat

\* wl_output names and descriptions as compositors report them
OutputNames == {NoText, <<"D", "P">>, <<"d", "p">>, <<"e", "D", "P">>}
OutputDescriptions == {NoText, <<"x", "(", "e", "D", "P", ")">>, <<"x", "(", "D", "P", ")">>}
OutputBindings == [name : OutputNames, description : OutputDescriptions]

\* AppState.requested_monitor, trimmed and non-empty, or None
Requests == {NoText, <<"D", "P">>, <<"d", "p">>}

\* the listings of outputs of at most n entries, in registry order
RECURSIVE OutputLists(_)
OutputLists(n) ==
    IF n = 0 THEN {<<>>}
    ELSE LET shorter == OutputLists(n - 1)
         IN shorter \cup {Append(l, o) : l \in {x \in shorter : Len(x) = n - 1},
                                         o \in OutputBindings}

output_matches_monitor(output, requested) ==
    \/ /\ output.name # NoText
       /\ (output.name = requested \/ eq_ignore_ascii_case(output.name, requested))
    \/ /\ output.description # NoText
       /\ LET requested_lower == to_ascii_lowercase(requested)
              desc_lower == to_ascii_lowercase(output.description)
          IN desc_lower = requested_lower \/ contains(desc_lower, requested_lower)

\* select_output: the index of the output returned, 0 for its error
select_output(outputs, requested) ==
    IF requested # NoText
    THEN LET found == {i \in 1..Len(outputs) : output_matches_monitor(outputs[i], requested)}
         IN IF found # {} THEN CHOOSE i \in found : \A j \in found : i <= j
            ELSE 0
    ELSE IF Len(outputs) > 0 THEN 1 ELSE 0

\* run_wallpaper calls select_output on the outputs bound
SelectOutput ==
    /\ ~fnRet.done
    /\ fnRet' = [done |-> TRUE, index |-> select_output(fnArg.outputs, fnArg.requested_monitor)]
    /\ UNCHANGED <<fnArg, supVars, vidVars, pickVars, surfVars>>

\* run_wallpaper has bound at least one output (it fails before that otherwise)
InitSelect ==
    /\ fnArg \in [outputs : OutputLists(MaxOutputs) \ {<<>>}, requested_monitor : Requests]
    /\ fnRet = NoRet
    /\ SupOff /\ VidIdle /\ PickIdle /\ SurfIdle

SpecSelect == InitSelect /\ [][SelectOutput]_vars

-----------------------------------------------------------------------------
(* wallpaper.rs: the layer surface of a renderer *)

\* most events one dispatch call handles
MaxBatch == 2

\* the dimensions a configure event may carry (0: the client chooses)
Dims == {0, 1, 2}

\* the events of the layer surface
SurfaceEvents == {[type |-> "configure", width |-> w, height |-> h] : w \in Dims, h \in Dims}
                    \cup {[type |-> "closed", width |-> 0, height |-> 0]}

\* the batches of events a dispatch call may find queued
RECURSIVE Batches(_)
Batches(n) ==
    IF n = 1 THEN {<<e>> : e \in SurfaceEvents}
    ELSE LET shorter == Batches(n - 1)
         IN shorter \cup {Append(b, e) : b \in {x \in shorter : Len(x) = n - 1},
                                         e \in SurfaceEvents}

Max2(a, b) == IF a > b THEN a ELSE b

\* Dispatch<ZwlrLayerSurfaceV1>::event on the fields of AppState
KeepFirstGeometry(st, ev) ==
    IF ev.type = "configure"
    THEN [st EXCEPT !.width = IF ev.width > 0 /\ ~st.configured THEN ev.width ELSE @,
                    !.height = IF ev.height > 0 /\ ~st.configured THEN ev.height ELSE @,
                    !.configured = TRUE]
    ELSE [st EXCEPT !.exit = TRUE]
LayerSurfaceEvent(st, ev) ==
    IF ev.type = "configure"
    THEN [st EXCEPT !.width = IF ev.width > 0 THEN ev.width ELSE @,
                    !.height = IF ev.height > 0 THEN ev.height ELSE @,
                    !.configured = TRUE]
    ELSE [st EXCEPT !.exit = TRUE]

\* a dispatch call handles the queued events in order
RECURSIVE DispatchBatch(_, _)
DispatchBatch(st, batch) ==
    IF batch = <<>> THEN st
    ELSE DispatchBatch(LayerSurfaceEvent(st, Head(batch)), Tail(batch))

\* Dispatch<ZwlrLayerSurfaceV1>::event: the serial passed to ack_configure
AcksLatestOnly(serial, latest) == latest
AckedSerial(serial, latest) == serial

\* the acknowledgements of the configure events of a batch; the compositor
\* numbers its configure events, n were sent before the batch
RECURSIVE AcksOf(_, _, _)
AcksOf(batch, n, total) ==
    IF batch = <<>> THEN <<>>
    ELSE IF Head(batch).type = "configure"
    THEN <<[serial |-> n + 1, acked |-> AckedSerial(n + 1, total)]>>
         \o AcksOf(Tail(batch), n + 1, total)
    ELSE AcksOf(Tail(batch), n, total)

\* the configure events of a batch, as <<width, height>>
RECURSIVE ConfiguresOf(_)
ConfiguresOf(batch) ==
    IF batch = <<>> THEN <<>>
    ELSE (IF Head(batch).type = "configure"
          THEN <<<<Head(batch).width, Head(batch).height>>>> ELSE <<>>)
         \o ConfiguresOf(Tail(batch))

vidButExit == <<caps, vpc, attempt, srAtomic, srLocal, is_paused, pstate,
                last_error, result, attemptRet, commits, firstCommit, lastPull,
                flipped, pulled, stateReq, reads, busVars>>

\* the fields of AppState the events write, after a dispatch of the batch
Dispatched(batch) ==
    LET st == DispatchBatch([width |-> width, height |-> height,
                             configured |-> configured, exit |-> exit], batch)
    IN /\ width' = st.width
       /\ height' = st.height
       /\ configured' = st.configured
       /\ exit' = st.exit

\* while !state.configured { blocking_dispatch(&mut state)? }
WaitConfigure ==
    /\ spc = "wait"
    /\ \E batch \in Batches(MaxBatch), failed \in BOOLEAN :
         /\ Dispatched(batch)
         /\ configures' = configures \o ConfiguresOf(batch)
         /\ acks' = acks \o AcksOf(batch, Len(configures),
                                    Len(configures) + Len(ConfiguresOf(batch)))
         /\ spc' = IF failed THEN "end" ELSE IF configured' THEN "pool" ELSE "wait"
    /\ UNCHANGED <<pool, frameVars, outVars, supVars, vidButExit, pickVars, funVars>>

\* FrameRenderer::new(state.width.max(1), state.height.max(1)); draw_image and
\* play_video_loop read the same fields before the next dispatch
CreatePool ==
    /\ spc = "pool"
    /\ \E created \in BOOLEAN :
         IF created
         THEN /\ pool' = <<Max2(width, 1), Max2(height, 1)>>
              /\ spc' = "frame"
         ELSE /\ spc' = "end"
              /\ UNCHANGED pool
    /\ UNCHANGED <<width, height, configured, configures, acks, exit, frameVars,
                   outVars, supVars, vidButExit, pickVars, funVars>>

\* draw_image, or the initial sample of play_video_loop: the first frame is
\* produced and written into the pool, or not
FirstFrame ==
    /\ spc = "frame"
    /\ \E produced \in BOOLEAN, writeOk \in BOOLEAN :
         IF produced
         THEN /\ surfCommits' = IF writeOk
                                THEN Append(surfCommits, [buffer |-> TRUE, writes |-> 1])
                                ELSE surfCommits
              /\ lastWrite' = IF writeOk THEN "Ok" ELSE "Err"
              /\ spc' = IF writeOk /\ ~exit THEN "run" ELSE "end"
         ELSE /\ spc' = "end"
              /\ UNCHANGED <<surfCommits, lastWrite>>
    /\ UNCHANGED <<width, height, configured, pool, configures, acks, exit, is_video,
                   sinceCommit, mmap, outVars, supVars, vidButExit, pickVars, funVars>>


\* while !state.exit { blocking_dispatch(&mut state)? } of a still image, and
\* the dispatch_pending of the video loop
RunDispatch ==
    /\ spc = "run"
    /\ \E batch \in Batches(MaxBatch), failed \in BOOLEAN :
         /\ Dispatched(batch)
         /\ spc' = IF failed \/ exit' THEN "end" ELSE "run"
    /\ UNCHANGED <<pool, configures, acks, frameVars, outVars, supVars, vidButExit,
                   pickVars, funVars>>

\* the layer surface was created and committed without a buffer
InitSurface ==
    /\ spc = "wait"
    /\ width = DefaultWidth
    /\ height = DefaultHeight
    /\ configured = FALSE
    /\ pool = <<>>
    /\ configures = <<>>
    /\ acks = <<>>
    /\ is_video = FALSE
    /\ surfCommits = <<[buffer |-> FALSE, writes |-> 0]>>
    /\ sinceCommit = 0
    /\ lastWrite = "none"
    /\ mmap = <<>>
    /\ dpc = "off"
    /\ bound_outputs = <<>>
    /\ roundtrips = 0
    /\ SupOff /\ VidIdle /\ PickIdle /\ FunIdle

NextSurface ==
    \/ WaitConfigure
    \/ CreatePool
    \/ FirstFrame
    \/ RunDispatch

SpecSurface == InitSurface /\ [][NextSurface]_vars

-----------------------------------------------------------------------------
(* picker.rs: the commands `random` and `next` *)

\* most picker calls in one behaviour
MaxPicks == 4

\* pick_next_wallpaper: the path it returns for a non-empty listing, given what
\* read_to_string(STATE_FILE) gave (0: the read failed)
pick_next_no_wrap(images, last) ==
    LET positions == {i \in 1..Len(images) : images[i] = last}
    IN IF last # 0 /\ positions # {}
       THEN images[Min2((CHOOSE i \in positions : \A j \in positions : i <= j) + 1,
                        Len(images))]
       ELSE images[1]
pick_next_wallpaper(images, last) ==
    LET positions == {i \in 1..Len(images) : images[i] = last}
        next_index == IF last # 0 /\ positions # {}
                      THEN (CHOOSE i \in positions : \A j \in positions : i <= j)
                               % Len(images)
                      ELSE 0
    IN images[next_index + 1]

supButState == <<env, pc, err, lockHolder, cfg, monitors, idx, monitor_children,
                 children, shown, firstTickDone, lastPruned,
                 waitVars>>

\* one call of a picker function on pdir that chooses `selected`: the read and
\* the write of STATE_FILE may fail, both failures are ignored
PickerCall(kind, selected, last, readOk, writeOk) ==
    /\ picks' = Append(picks, [kind |-> kind, path |-> selected])
    /\ lastBefore' = last
    /\ stateFile' = IF writeOk THEN selected ELSE stateFile
    /\ ioErr' = (ioErr \/ ~readOk \/ ~writeOk)

\* list_wallpapers failed: the command ends with its error
PickerFails(kind) ==
    /\ picks' = Append(picks, [kind |-> kind, path |-> 0])
    /\ UNCHANGED <<lastBefore, stateFile, ioErr>>

\* papdieo random
CmdRandom ==
    /\ Len(picks) < MaxPicks
    /\ LET images == list_wallpapers(pdir)
       IN IF images = <<>> THEN PickerFails("random")
          ELSE \E readOk \in BOOLEAN, writeOk \in BOOLEAN :
                 LET last == IF readOk THEN stateFile ELSE 0
                 IN \E selected \in pick_random_wallpaper(images, last) :
                      PickerCall("random", selected, last, readOk, writeOk)
    /\ UNCHANGED <<pdir, state0, supButState, vidVars, surfVars, funVars>>

\* papdieo next
CmdNext ==
    /\ Len(picks) < MaxPicks
    /\ LET images == list_wallpapers(pdir)
       IN IF images = <<>> THEN PickerFails("next")
          ELSE \E readOk \in BOOLEAN, writeOk \in BOOLEAN :
                 LET last == IF readOk THEN stateFile ELSE 0
                 IN PickerCall("next", pick_next_wallpaper(images, last),
                               last, readOk, writeOk)
    /\ UNCHANGED <<pdir, state0, supButState, vidVars, surfVars, funVars>>

\* the directory of the commands and what STATE_FILE holds before them
InitPicker ==
    /\ env = "any" /\ InitSup
    /\ pdir \in DOMAIN DirFiles
    /\ picks = <<>>
    /\ state0 = stateFile
    /\ lastBefore = 0
    /\ VidIdle /\ SurfIdle /\ FunIdle

NextPicker ==
    \/ CmdRandom
    \/ CmdNext

SpecPicker == InitPicker /\ [][NextPicker]_vars

-----------------------------------------------------------------------------
(* wallpaper.rs: the image fitter and the write of its frame to the pool *)

\* largest width and height of the small images and outputs
MaxDim == 3

\* config.rs: enum FitMode
FitModes == {"Stretch", "Fill", "Cover", "Fit", "Contain"}

\* f64::round of the quotient a / b of naturals
RoundDiv(a, b) == (2 * a + b) \div (2 * b)

\* u32::saturating_sub; also (a - b).max(0) on i64
saturating_sub(a, b) == IF a > b THEN a - b ELSE 0

\* DynamicImage::resize: the size that keeps the aspect ratio and fits in
\* (nwidth, nheight); the smaller of the two ratios is applied to both sides
keep_dimensions(w, h, nwidth, nheight) == <<w, h>>
resize_dimensions(w, h, nwidth, nheight) ==
    IF nwidth * h <= nheight * w
    THEN <<nwidth, Max2(RoundDiv(h * nwidth, w), 1)>>
    ELSE <<Max2(RoundDiv(w * nheight, h), 1), nheight>>

\* Fill / Cover: scale by the larger ratio, at least the output size
cover_by_smaller_ratio(w, h, out_w, out_h) ==
    IF out_w * h <= out_h * w
    THEN <<out_w, RoundDiv(h * out_w, w)>>
    ELSE <<RoundDiv(w * out_h, h), out_h>>
cover_dimensions(w, h, out_w, out_h) ==
    IF out_w * h >= out_h * w
    THEN <<Max2(RoundDiv(w * out_w, w), out_w), Max2(RoundDiv(h * out_w, w), out_h)>>
    ELSE <<Max2(RoundDiv(w * out_h, h), out_w), Max2(RoundDiv(h * out_h, h), out_h)>>

\* RgbaImage::new: every byte zero, so alpha 0
CanvasAlpha == 0

\* render_image_fit: the frame returned, described by its size, by the
\* rectangle the resized image fills in it, and by the alpha values in it; the
\* image has alpha a on all its pixels, and resampling keeps a constant channel
render_image_fit(w, h, a, out_w, out_h, fit_mode) ==
    IF fit_mode = "Stretch"
    THEN [width |-> out_w, height |-> out_h, x |-> 0, y |-> 0,
          rw |-> out_w, rh |-> out_h, alphas |-> {a}]
    ELSE IF fit_mode \in {"Fit", "Contain"}
    THEN LET resized == resize_dimensions(w, h, out_w, out_h)
             \* ((out_w - resized.width()) / 2).max(0)
             x == saturating_sub(out_w, resized[1]) \div 2
             y == saturating_sub(out_h, resized[2]) \div 2
             \* overlay keeps the part of the image inside the canvas
             rw == Min2(resized[1], out_w - x)
             rh == Min2(resized[2], out_h - y)
         IN [width |-> out_w, height |-> out_h, x |-> x, y |-> y,
             rw |-> rw, rh |-> rh,
             alphas |-> {a} \cup (IF rw < out_w \/ rh < out_h
                                  THEN {CanvasAlpha} ELSE {})]
    ELSE LET resized == cover_dimensions(w, h, out_w, out_h)
             x == saturating_sub(resized[1], out_w) \div 2
             y == saturating_sub(resized[2], out_h) \div 2
             \* crop_imm keeps the part of the rectangle inside the image
             cw == Min2(out_w, saturating_sub(resized[1], x))
             ch == Min2(out_h, saturating_sub(resized[2], y))
         IN [width |-> cw, height |-> ch, x |-> 0, y |-> 0,
             rw |-> cw, rh |-> ch, alphas |-> {a}]

\* write_rgba_image_frame: dst[3] = 255 for every pixel written
keep_alpha(a) == a
written_alpha(a) == 255

\* FrameRenderer::new: stride = width * 4, frame_size = height * stride
frame_size(w, h) == h * (w * 4)

\* the still images and outputs: every small size, every mode, three alpha
\* values, and the image of 1600x900 on an output of 1920x1080
FitInputs ==
    [width : 1..MaxDim, height : 1..MaxDim, alpha : {0, 128, 255},
     out_w : 1..MaxDim, out_h : 1..MaxDim, fit_mode : FitModes]
    \cup [width : {1600}, height : {900, 750}, alpha : {255},
          out_w : {1920}, out_h : {1080}, fit_mode : {"Contain", "Cover"}]

\* draw_image: render_image_fit(&image, width, height, fit_mode)
FitImage ==
    /\ fnArg # NoRet
    /\ ~fnRet.done
    /\ fnRet' = [done |-> TRUE, written |-> "",
                 frame |-> render_image_fit(fnArg.width, fnArg.height, fnArg.alpha,
                                            fnArg.out_w, fnArg.out_h, fnArg.fit_mode),
                 pool |-> {}]
    /\ UNCHANGED <<fnArg, supVars, vidVars, pickVars, surfVars>>

\* draw_image_frame: renderer.write_rgba_image_frame(rendered.as_raw())?
WriteImageFrame ==
    /\ fnRet.done
    /\ fnRet.written = ""
    /\ LET len == fnRet.frame.width * fnRet.frame.height * 4
       IN IF len > frame_size(fnArg.out_w, fnArg.out_h)
          THEN fnRet' = [fnRet EXCEPT !.written = "image frame is larger than renderer buffer"]
          ELSE fnRet' = [fnRet EXCEPT !.written = "Ok",
                                      !.pool = {written_alpha(a) : a \in fnRet.frame.alphas}]
    /\ UNCHANGED <<fnArg, supVars, vidVars, pickVars, surfVars>>

InitFit ==
    /\ fnArg \in FitInputs
    /\ fnRet = NoRet
    /\ SupOff /\ VidIdle /\ PickIdle /\ SurfIdle

NextFit ==
    \/ FitImage
    \/ WriteImageFrame

SpecFit == InitFit /\ [][NextFit]_vars

-----------------------------------------------------------------------------
(* main.rs: the resolution of the monitor set *)

\* most entries of the list `monitors` of a configuration
MaxListed == 2

\* names as the configuration file may spell them
RawNames == {"A", " A", "B ", "  "}

\* the lists of at most n raw names
RECURSIVE RawLists(_)
RawLists(n) ==
    IF n = 0 THEN {<<>>}
    ELSE LET shorter == RawLists(n - 1)
         IN shorter \cup {Append(l, r) : l \in {x \in shorter : Len(x) = n - 1},
                                         r \in RawNames}

\* the configurations as far as the monitor set depends on them
ResolveConfigs ==
    {[monitors |-> l, monitor_wallpaper_dirs |-> [k \in keys |-> "shared"],
      monitor |-> single, wallpaper_dir |-> "shared"] :
        l \in RawLists(MaxListed), keys \in SUBSET RawNames,
        single \in {NoneStr, "A", "B ", "  "}}

\* configured_or_detected_monitors with the outcome d of detect_monitors, which
\* is called only when nothing is configured: [ok, monitors, detect]
configured_or_detected_monitors(c, d) ==
    LET fromConfig == ConfiguredMonitors(c)
    IN IF fromConfig # <<>>
       THEN [ok |-> TRUE, monitors |-> fromConfig, detect |-> FALSE]
       ELSE [ok |-> d.ok, monitors |-> d.names, detect |-> TRUE]

\* run_daemon_loop resolves the monitor set of a tick
ResolveMonitors ==
    /\ ~fnRet.done
    /\ fnRet' = [done |-> TRUE,
                 resolved |-> configured_or_detected_monitors(fnArg.cfg, fnArg.detection)]
    /\ UNCHANGED <<fnArg, supVars, vidVars, pickVars, surfVars>>

InitResolve ==
    /\ fnArg \in [cfg : ResolveConfigs, detection : Detections]
    /\ fnRet = NoRet
    /\ SupOff /\ VidIdle /\ PickIdle /\ SurfIdle

SpecResolve == InitResolve /\ [][ResolveMonitors]_vars

-----------------------------------------------------------------------------
(* wallpaper.rs: the visibility probe *)

\* most clients hyprctl reports
MaxClients == 2

\* `hyprctl -j monitors`: two monitors, each with its active workspace; the
\* focused one is monitor `focused` (0: none is marked focused)
HyprMonitors(focused) ==
    <<[name |-> "A", id |-> 1, focused |-> (focused = 1), activeWorkspace |-> 1],
      [name |-> "B", id |-> 2, focused |-> (focused = 2), activeWorkspace |-> 2]>>

\* `hyprctl -j clients`: the entries; workspace 0 stands for a missing id
HyprClients == [mapped : BOOLEAN, hidden : BOOLEAN, workspace : {0, 1, 2}]
ClientSets == {cs \in SUBSET HyprClients : Cardinality(cs) <= MaxClients}

\* resolve_monitor_id: the id of the monitor of that exact name, 0 for None
resolve_monitor_id(target_monitor_name, monitorList, hyprctlOk) ==
    IF target_monitor_name = NoneStr \/ ~hyprctlOk THEN 0
    ELSE LET found == {i \in 1..Len(monitorList) : monitorList[i].name = target_monitor_name}
         IN IF found = {} THEN 0
            ELSE monitorList[CHOOSE i \in found : \A j \in found : i <= j].id

\* active_workspace_id: of the monitor of the target id, without a target of
\* the focused monitor or else the first one; 0 for None
active_workspace_id(target_monitor_id, monitorList, hyprctlOk) ==
    IF ~hyprctlOk THEN 0
    ELSE LET found == IF target_monitor_id # 0
                      THEN {i \in 1..Len(monitorList) : monitorList[i].id = target_monitor_id}
                      ELSE IF \E i \in 1..Len(monitorList) : monitorList[i].focused
                      THEN {i \in 1..Len(monitorList) : monitorList[i].focused}
                      ELSE 1..Len(monitorList)
         IN IF found = {} THEN 0
            ELSE monitorList[CHOOSE i \in found : \A j \in found : i <= j].activeWorkspace

\* the closure of clients.iter().any(..): the client is a window shown on the
\* active workspace
CountsHiddenClient(client, active) ==
    client.mapped /\ client.workspace = active
ClientOnWorkspace(client, active) ==
    client.mapped /\ ~client.hidden /\ client.workspace = active

\* query_should_render: "failed" for None, else "true" or "false"
query_should_render(target_monitor_id, desktop, monitorsOk, clientsOk) ==
    LET active == active_workspace_id(target_monitor_id,
                                      HyprMonitors(desktop.focused), monitorsOk)
    IN IF active = 0 \/ ~clientsOk THEN "failed"
       ELSE IF \E client \in desktop.clients : ClientOnWorkspace(client, active)
       THEN "false" ELSE "true"

\* HyprlandVisibility::new
NewProbe ==
    /\ ~fnRet.done
    /\ \E resolveOk \in BOOLEAN, monitorsOk \in BOOLEAN, clientsOk \in BOOLEAN :
         LET target_monitor_id == resolve_monitor_id(fnArg.target,
                                      HyprMonitors(fnArg.focused), resolveOk)
             query == query_should_render(target_monitor_id, fnArg, monitorsOk, clientsOk)
         IN fnRet' = [done |-> TRUE, target_monitor_id |-> target_monitor_id,
                      should_render |-> IF query = "failed" THEN TRUE ELSE query = "true",
                      last |-> "new", query |-> query, previous |-> TRUE]
    /\ UNCHANGED <<fnArg, supVars, vidVars, pickVars, surfVars>>

\* HyprlandVisibility::refresh_now
RefreshProbe ==
    /\ fnRet.done
    /\ \E monitorsOk \in BOOLEAN, clientsOk \in BOOLEAN :
         LET query == query_should_render(fnRet.target_monitor_id, fnArg,
                                          monitorsOk, clientsOk)
         IN fnRet' = [fnRet EXCEPT
                        !.should_render = IF query = "failed" THEN @ ELSE query = "true",
                        !.last = "refresh", !.query = query,
                        !.previous = fnRet.should_render]
    /\ UNCHANGED <<fnArg, supVars, vidVars, pickVars, surfVars>>

\* a window is opened or closed, or the focus moves to another monitor
DesktopChanges ==
    /\ fnRet.done
    /\ \E c \in HyprClients, f \in {0, 1, 2} :
         LET cs == IF c \in fnArg.clients THEN fnArg.clients \ {c}
                   ELSE fnArg.clients \cup {c}
         IN /\ Cardinality(cs) <= MaxClients
            /\ fnArg' = [fnArg EXCEPT !.clients = IF f = fnArg.focused THEN cs ELSE @,
                                      !.focused = f]
    /\ fnRet' = [fnRet EXCEPT !.last = "stale"]
    /\ UNCHANGED <<supVars, vidVars, pickVars, surfVars>>

\* the renderer was given a monitor name (or none) and the desktop is in some state
InitProbe ==
    /\ fnArg \in [target : {NoneStr, "A", "B", "b"}, focused : {0, 1, 2}, clients : ClientSets]
    /\ fnRet = NoRet
    /\ SupOff /\ VidIdle /\ PickIdle /\ SurfIdle

NextProbe ==
    \/ NewProbe
    \/ RefreshProbe
    \/ DesktopChanges

SpecProbe == InitProbe /\ [][NextProbe]_vars

-----------------------------------------------------------------------------
(* wallpaper.rs: the output a video renderer draws to and the monitor its  *)
(* visibility probe reads                                                  *)

\* the characters of a monitor name or request of the probe's desktop
Chars(name) == CASE name = "A"  -> <<"A">>
                 [] name = "B"  -> <<"B">>
                 [] name = "b"  -> <<"b">>
                 [] name = "xA" -> <<"x", "A">>
                 [] name = "xB" -> <<"x", "B">>
                 [] OTHER       -> NoText

\* the wl_outputs of the two monitors of HyprMonitors, bound in registry
\* order: each carries the monitor's name and a description that ends in it
GateOutputs(order) ==
    [i \in 1..Len(order) |->
        LET m == HyprMonitors(0)[order[i]]
        IN [name |-> Chars(m.name), description |-> Chars("x" \o m.name),
            monitor |-> m.id]]

\* run_wallpaper: select_output on the requested monitor; its error ends the
\* renderer
GateSelect ==
    /\ fnRet = NoRet
    /\ LET outputs == GateOutputs(fnArg.order)
           requested == IF fnArg.target = NoneStr THEN NoText ELSE Chars(fnArg.target)
           index == select_output(outputs, requested)
       IN fnRet' = [done |-> FALSE,
                    selected |-> IF index = 0 THEN 0 ELSE outputs[index].monitor]
    /\ UNCHANGED <<fnArg, supVars, vidVars, pickVars, surfVars>>

\* play_video_loop: HyprlandVisibility::new(state.requested_monitor), which
\* resolves the monitor id from the same request and makes the first query
GateProbe ==
    /\ ~fnRet.done /\ fnRet # NoRet
    /\ fnRet.selected # 0
    /\ \E resolveOk \in BOOLEAN, monitorsOk \in BOOLEAN, clientsOk \in BOOLEAN :
         LET target_monitor_id == resolve_monitor_id(fnArg.target,
                                      HyprMonitors(fnArg.focused), resolveOk)
             query == query_should_render(target_monitor_id, fnArg, monitorsOk, clientsOk)
         IN fnRet' = [done |-> TRUE, selected |-> fnRet.selected,
                      target_monitor_id |-> target_monitor_id,
                      workspace |-> active_workspace_id(target_monitor_id,
                                        HyprMonitors(fnArg.focused), monitorsOk),
                      hyprctl |-> resolveOk /\ monitorsOk /\ clientsOk,
                      should_render |-> IF query = "failed" THEN TRUE ELSE query = "true"]
    /\ UNCHANGED <<fnArg, supVars, vidVars, pickVars, surfVars>>

\* a video renderer was given a monitor by name (any case), by a part of its
\* description, or none; the desktop is in some state
InitGate ==
    /\ fnArg \in [target : {NoneStr, "A", "B", "b", "xB"}, focused : {0, 1, 2},
                   clients : ClientSets, order : {<<1, 2>>, <<2, 1>>}]
    /\ fnRet = NoRet
    /\ SupOff /\ VidIdle /\ PickIdle /\ SurfIdle

NextGate ==
    \/ GateSelect
    \/ GateProbe

SpecGate == InitGate /\ [][NextGate]_vars

(***************************************************************************)
(* SpecFrames: the FrameRenderer's mapping and the frames committed on the *)
(* surface (write_rgba_image_frame, write_sample_bgrx, draw_image_frame,   *)
(* write_sample_frame)                                                     *)
(***************************************************************************)

\* largest width and height of the pool
MaxSide == 2

\* most surface commits in one behaviour
MaxCommits == 3

\* the byte written as alpha
Opaque == 255

ErrImageLarger == "image frame is larger than renderer buffer"
ErrMissingBuffer == "video sample missing buffer"
ErrMapBuffer == "failed to map video buffer"
ErrMissingCaps == "video sample missing caps"
ErrParseCaps == "failed to parse video caps"
ErrVideoLarger == "video frame larger than renderer buffer"
ErrStride == "video frame stride exceeds buffer"

\* a byte slice whose byte at offset i (0-based) is i + 1, so that every
\* offset of a source is recognisable in the mapping and differs from the
\* zero of a new mapping
Bytes(len) == [i \in 1..len |-> i]

\* FrameRenderer::new: the mapping of a file grown to frame_size is zeroed
NewMapping(w, h) == [i \in 1..frame_size(w, h) |-> 0]

\* write_rgba_image_frame without the forced alpha
write_rgba_keep_alpha(map, rgba) ==
    IF Len(rgba) > Len(map)
    THEN [result |-> ErrImageLarger, mmap |-> map]
    ELSE [result |-> "Ok",
          mmap |-> [i \in 1..Len(map) |->
                      IF i <= 4 * (Len(rgba) \div 4)
                      THEN LET k == (i - 1) % 4
                           IN IF k = 0 THEN rgba[i + 2]
                              ELSE IF k = 1 THEN rgba[i]
                              ELSE IF k = 2 THEN rgba[i - 2]
                              ELSE rgba[i]
                      ELSE map[i]]]
\* write_rgba_image_frame: the length check, then the zip of the 4-byte
\* chunks of mmap[..rgba.len()] and of rgba (chunks_exact drops a remainder)
write_rgba_image_frame(map, rgba) ==
    IF Len(rgba) > Len(map)
    THEN [result |-> ErrImageLarger, mmap |-> map]
    ELSE [result |-> "Ok",
          mmap |-> [i \in 1..Len(map) |->
                      IF i <= 4 * (Len(rgba) \div 4)
                      THEN LET k == (i - 1) % 4
                           IN IF k = 0 THEN rgba[i + 2]
                              ELSE IF k = 1 THEN rgba[i]
                              ELSE IF k = 2 THEN rgba[i - 2]
                              ELSE Opaque
                      ELSE map[i]]]

\* the row loop of write_sample_bgrx from row on: a row that ends beyond the
\* source returns the error after the rows before it were copied
RECURSIVE CopyRows(_, _, _, _, _, _)
CopyRows(map, src, stride, row_bytes, row, rows) ==
    IF row = rows
    THEN [result |-> "Ok", mmap |-> map]
    ELSE LET src_start == row * stride
             dst_start == row * row_bytes
         IN IF src_start + row_bytes > Len(src)
            THEN [result |-> ErrStride, mmap |-> map]
            ELSE CopyRows([i \in 1..Len(map) |->
                             IF i > dst_start /\ i <= dst_start + row_bytes
                             THEN src[src_start + (i - dst_start)]
                             ELSE map[i]],
                          src, stride, row_bytes, row + 1, rows)

\* write_sample_bgrx reading the source as if its rows were packed
write_sample_packed(map, sample, w, h) ==
    IF sample.defect # "none"
    THEN [result |-> sample.defect, mmap |-> map]
    ELSE IF (w * 4) * h > Len(map)
    THEN [result |-> ErrVideoLarger, mmap |-> map]
    ELSE CopyRows(map, sample.data, w * 4, w * 4, 0, h)
\* write_sample_bgrx: buffer, map, caps and info of the sample, the size
\* check, the row loop
write_sample_bgrx(map, sample, w, h) ==
    IF sample.defect # "none"
    THEN [result |-> sample.defect, mmap |-> map]
    ELSE IF (w * 4) * h > Len(map)
    THEN [result |-> ErrVideoLarger, mmap |-> map]
    ELSE CopyRows(map, sample.data, sample.stride, w * 4, 0, h)

\* the slices handed to write_rgba_image_frame
RgbaInputs(maxLen) ==
    {Bytes(len) : len \in 0..maxLen}

SampleDefects ==
    {"none", ErrMissingBuffer, ErrMapBuffer, ErrMissingCaps, ErrParseCaps}

\* the samples handed to write_sample_bgrx for a frame of w x h: strides
\* below, at and above the row size; sources that are empty, one byte short
\* of the last row, ending with the last row, or of h whole strides
Samples(w, h) ==
    {[defect |-> d, stride |-> w * 4, data |-> Bytes(h * w * 4)] :
        d \in SampleDefects}
    \cup
    {[defect |-> "none", stride |-> s, data |-> Bytes(len)] :
        s \in {w * 4 - 1, w * 4, w * 4 + 2},
        len \in UNION {{0, (h - 1) * t + w * 4 - 1, (h - 1) * t + w * 4, h * t} :
                          t \in {w * 4 - 1, w * 4, w * 4 + 2}}}

\* the frame sizes asked of write_sample_bgrx: the pool's, one row more, and
\* a single pixel
SampleSizes == {pool, <<pool[1], pool[2] + 1>>, <<1, 1>>}

\* write_sample_frame and draw_image_frame: the `?` after the pool write; the
\* attach, damage_buffer and commit follow iff the write returned Ok
CommitsRegardless(writeOk) == TRUE
CommitsAfterWrite(writeOk) == writeOk

\* write_sample_frame / draw_image_frame with the outcome of the pool write
WriteFrame(written) ==
    LET writeOk == written.result = "Ok"
        writes == sinceCommit + (IF writeOk THEN 1 ELSE 0)
    IN /\ mmap' = written.mmap
       /\ lastWrite' = IF writeOk THEN "Ok" ELSE "Err"
       /\ IF CommitsAfterWrite(writeOk)
          THEN /\ surfCommits' = Append(surfCommits, [buffer |-> TRUE, writes |-> writes])
               /\ sinceCommit' = 0
          ELSE /\ sinceCommit' = writes
               /\ UNCHANGED surfCommits

\* where the renderer goes after a frame could not be shown: a still image
\* ends it, a video goes on to the next descriptor unless it was the last
AfterFailure(last) == IF is_video /\ ~last /\ ~exit THEN "draw" ELSE "end"

frameRest == <<width, height, configured, pool, configures, acks, exit, is_video,
               outVars, supVars, vidButExit, pickVars>>

\* draw_image: image::open and render_image_fit, then draw_image_frame
DrawImage ==
    /\ spc = "draw"
    /\ ~is_video
    /\ \E decoded \in BOOLEAN :
         IF decoded
         THEN \E rgba \in RgbaInputs(Len(mmap) + 2) :
                LET written == write_rgba_image_frame(mmap, rgba)
                IN /\ WriteFrame(written)
                   /\ fnArg' = [op |-> "rgba", rgba |-> rgba]
                   /\ fnRet' = [done |-> TRUE, result |-> written.result,
                                before |-> mmap]
                   /\ spc' = IF written.result = "Ok" THEN "run" ELSE "end"
         ELSE /\ spc' = "end"
              /\ UNCHANGED <<frameVars, funVars>>
    /\ UNCHANGED frameRest

\* write_sample_frame on a pulled sample
SampleFrame(then, last) ==
    \E size \in SampleSizes :
      \E sample \in Samples(size[1], size[2]) :
        LET w == size[1]
            h == size[2]
            written == write_sample_bgrx(mmap, sample, w, h)
        IN /\ WriteFrame(written)
           /\ fnArg' = [op |-> "bgrx", sample |-> sample, width |-> w, height |-> h]
           /\ fnRet' = [done |-> TRUE, result |-> written.result, before |-> mmap]
           /\ spc' = IF written.result = "Ok" THEN then ELSE AfterFailure(last)

\* run_video_pipeline: the initial sample of an attempt
FirstSample ==
    /\ spc = "draw"
    /\ is_video
    /\ Len(surfCommits) < MaxCommits
    /\ \E pulled_ \in BOOLEAN, last \in BOOLEAN :
         IF pulled_
         THEN SampleFrame("run", last)
         ELSE /\ spc' = AfterFailure(last)
              /\ UNCHANGED <<frameVars, funVars>>
    /\ UNCHANGED frameRest

\* run_video_pipeline: a sample pulled in the steady-state loop
VideoFrame ==
    /\ spc = "run"
    /\ is_video
    /\ Len(surfCommits) < MaxCommits
    /\ \E last \in BOOLEAN : SampleFrame("run", last)
    /\ UNCHANGED frameRest

\* the FrameRenderer was created after the configure wait; the surface has
\* been committed once, without a buffer, before that wait
InitFrames ==
    /\ SupOff /\ VidIdle /\ PickIdle /\ FunIdle
    /\ spc = "draw"
    /\ width = DefaultWidth
    /\ height = DefaultHeight
    /\ configured = TRUE
    /\ configures = <<>>
    /\ acks = <<>>
    /\ pool \in (1..MaxSide) \X (1..MaxSide)
    /\ mmap = NewMapping(pool[1], pool[2])
    /\ is_video \in BOOLEAN
    /\ surfCommits = <<[buffer |-> FALSE, writes |-> 0]>>
    /\ sinceCommit = 0
    /\ lastWrite = "none"
    /\ dpc = "off"
    /\ bound_outputs = <<>>
    /\ roundtrips = 0

NextFrames ==
    \/ DrawImage
    \/ FirstSample
    \/ VideoFrame

SpecFrames == InitFrames /\ [][NextFrames]_vars

(***************************************************************************)
(* SpecWait: the wait between two iterations of the daemon loop            *)
(* (wait_for_interval_or_config_change), with a configuration file whose   *)
(* mtime changes while the daemon runs                                     *)
(***************************************************************************)

\* longest interval of an iteration, in seconds
MaxInterval == 3

\* most changes of the configuration file's mtime in one behaviour
MaxTouches == 2

\* let check_every = Duration::from_secs(1)
check_every == 1

\* the values config_file_modified_time can give: 0 (None: no metadata, no
\* mtime) or the time of a modification
MTimes == 0..2

\* what the wait stores in *observed_mtime when it saw the mtime current
KeepsObserved(current, observed) == observed
RecordsMtime(current, observed) == current

waitRest == <<env, pc, err, lockHolder, cfg, monitors, idx, monitor_children,
              children, stateFile, shown, firstTickDone, ioErr, lastPruned,
              vidVars, auxVars>>

\* run_daemon_loop: the body of an iteration up to the call of the wait; the
\* interval is daemon_interval_seconds or rotation_seconds or 300, .max(1)
Tick ==
    /\ wpc = "tick"
    /\ \E seconds \in 0..MaxInterval :
         interval' = Max2(seconds, 1)
    /\ elapsed' = 0
    /\ wpc' = "wait"
    /\ UNCHANGED <<watched, observed_config_mtime, mtime, touches, wakes, waitRest>>

\* one iteration of `while elapsed < interval`: sleep, then compare the mtime
SleepChunk ==
    /\ wpc = "wait"
    /\ elapsed < interval
    /\ LET remaining == saturating_sub(interval, elapsed)
           sleep_for == Min2(remaining, check_every)
           now == elapsed + sleep_for
           changed == watched /\ mtime # observed_config_mtime
       IN /\ elapsed' = now
          /\ IF changed
             THEN /\ observed_config_mtime' = RecordsMtime(mtime, observed_config_mtime)
                  /\ wakes' = Append(wakes, [elapsed |-> now, interval |-> interval,
                                             touches |-> touches])
                  /\ wpc' = "tick"
             ELSE /\ wpc' = IF now < interval THEN "wait" ELSE "tick"
                  /\ UNCHANGED <<observed_config_mtime, wakes>>
    /\ UNCHANGED <<interval, watched, mtime, touches, waitRest>>

\* the configuration file is written, touched, removed or created
Touch ==
    /\ wpc # "off"
    /\ touches < MaxTouches
    /\ \E t \in MTimes \ {mtime} : mtime' = t
    /\ touches' = touches + 1
    /\ UNCHANGED <<wpc, interval, elapsed, watched, observed_config_mtime, wakes,
                   waitRest>>

\* run_daemon_loop before its loop: observed_config_mtime is the mtime of the
\* watched path, None without one
InitWait ==
    /\ env = "any"
    /\ InitDaemon
    /\ stateFile = 0
    /\ VidIdle
    /\ AuxIdle
    /\ wpc = "tick"
    /\ interval = 1
    /\ elapsed = 0
    /\ watched \in BOOLEAN
    /\ mtime \in MTimes
    /\ observed_config_mtime = IF watched THEN mtime ELSE 0
    /\ touches = 0
    /\ wakes = <<>>

NextWait ==
    \/ Tick
    \/ SleepChunk
    \/ Touch

SpecWait == InitWait /\ [][NextWait]_vars

\* the daemon is scheduled: a sleep of the wait ends, the loop goes on
SpecWaitFair == SpecWait /\ WF_vars(SleepChunk) /\ WF_vars(Tick)

(***************************************************************************)
(* SpecDiscover: the roundtrips of run_wallpaper that wait for the names   *)
(* and descriptions of the bound outputs, up to select_output              *)
(***************************************************************************)

\* for _ in 0..6
MoreRoundtrips == 6

\* no name and no description has arrived
Unnamed == [name |-> NoText, description |-> NoText]

\* has_resolved_requested_output
has_resolved_requested_output(outs, requested) ==
    IF requested = NoText THEN TRUE
    ELSE \E i \in 1..Len(outs) : output_matches_monitor(outs[i], requested)

\* all_outputs_have_metadata
all_outputs_have_metadata(outs) ==
    \A i \in 1..Len(outs) : outs[i].name # NoText \/ outs[i].description # NoText

\* the `if ... { break; }` of the metadata loop
MetadataComplete ==
    \/ has_resolved_requested_output(bound_outputs, fnArg.requested_monitor)
    \/ all_outputs_have_metadata(bound_outputs)

discoverRest == <<spc, width, height, configured, pool, configures, acks, frameVars,
                  fnArg, supVars, vidVars, pickVars>>

\* event_queue.roundtrip: the Name and Description events of the outputs in
\* `arrived` are dispatched; the first roundtrip is unconditional, the later
\* ones are those of the loop
Roundtrip ==
    /\ \/ dpc = "first"
       \/ /\ dpc = "wait"
          /\ roundtrips - 1 < MoreRoundtrips
          /\ ~MetadataComplete
    /\ \E arrived \in SUBSET {i \in 1..Len(bound_outputs) : bound_outputs[i] = Unnamed},
          failed \in BOOLEAN :
         /\ bound_outputs' = [i \in 1..Len(bound_outputs) |->
                                IF i \in arrived THEN fnArg.outputs[i]
                                ELSE bound_outputs[i]]
         /\ dpc' = IF failed THEN "end" ELSE "wait"
    /\ roundtrips' = roundtrips + 1
    /\ UNCHANGED <<fnRet, discoverRest>>

\* the loop ends (break, or six iterations made): select_output
SelectAfterWait ==
    /\ dpc = "wait"
    /\ roundtrips - 1 >= MoreRoundtrips \/ MetadataComplete
    /\ dpc' = "select"
    /\ fnRet' = [done |-> TRUE,
                 index |-> select_output(bound_outputs, fnArg.requested_monitor)]
    /\ UNCHANGED <<bound_outputs, roundtrips, discoverRest>>

\* run_wallpaper has bound the outputs the compositor advertises; fnArg holds
\* the name and the description each of them reports, NoText if it never does
InitDiscover ==
    /\ fnArg \in [outputs : OutputLists(MaxOutputs) \ {<<>>}, requested_monitor : Requests]
    /\ fnRet = NoRet
    /\ dpc = "first"
    /\ bound_outputs = [i \in 1..Len(fnArg.outputs) |-> Unnamed]
    /\ roundtrips = 0
    /\ spc = "off"
    /\ width = DefaultWidth
    /\ height = DefaultHeight
    /\ configured = FALSE
    /\ pool = <<>>
    /\ configures = <<>>
    /\ acks = <<>>
    /\ is_video = FALSE
    /\ surfCommits = <<>>
    /\ sinceCommit = 0
    /\ lastWrite = "none"
    /\ mmap = <<>>
    /\ SupOff /\ VidIdle /\ PickIdle

NextDiscover ==
    \/ Roundtrip
    \/ SelectAfterWait

SpecDiscover == InitDiscover /\ [][NextDiscover]_vars

-----------------------------------------------------------------------------
(* Properties of the supervisor *)

\* the child processes of supervisor s that render monitor m: spawned by s and
\* not yet reaped (running, or ended and not waited for)
ChildrenOf(s, m) ==
    {c \in 1..Len(children) : children[c].owner = s /\ children[c].monitor = m}

\* C1: a supervisor never has more than one renderer child for a monitor name,
\* and when it is about to spawn the child of a monitor, the previous child of
\* that name has been killed and waited for (also with a name listed twice).
C1_AtMostOneChildPerMonitor ==
    \A s \in Sups :
        /\ \A m \in MonitorNames : Cardinality(ChildrenOf(s, m)) <= 1
        /\ pc[s] = "pick" => ChildrenOf(s, monitors[s][idx[s]]) = {}

\* C1 witness: the list named "A" twice; the child spawned for its first
\* occurrence was killed and reaped, the child of the second one is there.
C1_Witness ==
    \E s \in Sups :
        /\ monitors[s] = <<"A", "A">>
        /\ pc[s] = "prune"
        /\ Len(children) = 2
        /\ children[1] = Reaped
        /\ ChildrenOf(s, "A") = {2}

\* C2 as claimed: after the first tick each of the two monitors has exactly one
\* renderer child at all times.
C2_ExactlyOneAtAllTimes ==
    \A s \in Sups :
        firstTickDone[s] =>
            \A m \in MonitorNames : Cardinality(ChildrenOf(s, m)) = 1

\* supervisor s is replacing the child of monitor m: the old one is killed and
\* reaped, the new one not yet spawned
Replacing(s, m) == pc[s] = "pick" /\ monitors[s][idx[s]] = m

\* C2 amended: after the first tick each of the two monitors has exactly one
\* renderer child, the one its map entry holds, except while the supervisor is
\* replacing that monitor's child in a rotation tick: then it has none.
C2_ExactlyOneExceptWhileReplaced ==
    \A s \in Sups :
        firstTickDone[s] =>
            \A m \in MonitorNames :
                IF Replacing(s, m)
                THEN ChildrenOf(s, m) = {} /\ monitor_children[s][m] = 0
                ELSE ChildrenOf(s, m) = {monitor_children[s][m]}

\* C2 witness: in a later tick the child of B is being replaced (B has none)
\* while A already has its new child.
C2_Witness ==
    \E s \in Sups :
        /\ firstTickDone[s]
        /\ Replacing(s, "B")
        /\ ChildrenOf(s, "B") = {}
        /\ Cardinality(ChildrenOf(s, "A")) = 1
        /\ Len(children) = 3

\* C3 as claimed: the media paths passed to the renderers of one monitor on two
\* successive ticks differ (no read or write of the state file having failed).
C3_NoConsecutiveRepeat ==
    ~ioErr =>
        \A m \in MonitorNames : shown[m][1] # 0 => shown[m][1] # shown[m][2]

\* C4 as claimed: a failed spawn never terminates the supervisor.
C4_SpawnFailureSurvived ==
    \A s \in Sups : ~(pc[s] = "failed" /\ err[s] = "spawn")

\* C5: after the prune step the keys of the child map are monitors of the set
\* resolved in this iteration, and every child whose entry the prune removed has
\* been killed and waited for.
C5_PrunedToMonitorSet ==
    \A s \in Sups :
        pc[s] = "wait" =>
            /\ \A m \in MonitorNames :
                   monitor_children[s][m] # 0 => m \in Range(monitors[s])
            /\ \A c \in lastPruned : children[c] = Reaped

\* C5 witness: a prune has removed the entry of a monitor that left the set.
C5_Witness ==
    \E s \in Sups :
        /\ pc[s] = "wait"
        /\ lastPruned # {}
        /\ \E m \in MonitorNames : m \notin Range(monitors[s])

\* C6: at most one supervisor is inside the daemon loop, it holds the lock as
\* long as it is there, and a supervisor that failed to take the lock has no
\* renderer child.
C6_SingleSupervisor ==
    /\ Cardinality({s \in Sups : InLoop(s)}) <= 1
    /\ \A s \in Sups : InLoop(s) => lockHolder = s
    /\ \A s \in Sups :
           (pc[s] = "failed" /\ err[s] = "lock") =>
               \A m \in MonitorNames : ChildrenOf(s, m) = {}

\* C6 witness: one supervisor serves its monitors while the other one has
\* failed on the lock.
C6_Witness ==
    \E s, t \in Sups :
        /\ InLoop(s) /\ lockHolder = s
        /\ \E m \in MonitorNames : ChildrenOf(s, m) # {}
        /\ pc[t] = "failed" /\ err[t] = "lock"

-----------------------------------------------------------------------------
(* Properties of the video driver *)

OnlyKthWorks(k) ==
    caps[k] = "works" /\ \A j \in Descriptors \ {k} : caps[j] # "works"

\* C7: when only descriptor k can produce a first frame, the first surface
\* commit of the run comes from k, after every descriptor before k has failed,
\* and no frame is ever committed from another descriptor (none after k).
C7_FirstCommitFromKth ==
    \A k \in Descriptors :
        OnlyKthWorks(k) =>
            /\ firstCommit \in {0, k}
            /\ \A j \in Descriptors \ {k} : commits[j] = 0
            /\ firstCommit = k => \A j \in 1..(k - 1) : IsErr(attemptRet[j])

\* C7 witness: only descriptor 2 works; it committed the first frame, later
\* failed on a bus error, and the ladder ran through 3 and 4 without a commit.
C7_Witness ==
    /\ OnlyKthWorks(2)
    /\ firstCommit = 2
    /\ attemptRet[2] = ErrBus
    /\ vpc = "done"
    /\ attempt = NumDescriptors

\* C8: play_video_loop returns Ok exactly when its last attempt returned Ok or
\* failed with the exit flag set, and then no later descriptor was attempted;
\* it returns an error only when all the descriptors failed with the exit flag
\* clear, and the error is the one of the last attempt.
C8_LadderOutcome ==
    /\ vpc = "done" <=> result # ""
    /\ result = "Ok" =>
           /\ attemptRet[attempt] = "Ok" \/ (IsErr(attemptRet[attempt]) /\ exit)
           /\ \A j \in Descriptors : j > attempt => attemptRet[j] = "" /\ pstate[j] = "none"
           /\ \A j \in 1..(attempt - 1) : IsErr(attemptRet[j])
    /\ IsErr(result) =>
           /\ attempt = NumDescriptors
           /\ \A j \in Descriptors : IsErr(attemptRet[j])
           /\ ~exit
           /\ result = attemptRet[NumDescriptors]

\* C8 witness: the four attempts failed, the first on its build and the last on
\* a bus error, which is the error returned.
C8_Witness ==
    /\ vpc = "done"
    /\ attemptRet[1] = ErrBuild
    /\ attemptRet[NumDescriptors] = ErrBus
    /\ result = ErrBus

\* C9 as claimed: when the ladder is exhausted, the error returned is the
\* aggregate error that tells to install the decoder plugins.
C9_AggregateError ==
    IsErr(result) => result = ErrNoFrames

\* C10 as claimed: no sample is pulled in an attempt while should_render is
\* false, and an iteration in which it turned true pulls a sample.
C10_NoPullWhileHidden ==
    /\ lastPull.kind # "" => lastPull.sr
    /\ (vpc \in {"bus", "dispatch"} /\ flipped) => pulled

\* C10 amended: in the steady-state loop a sample is pulled in an iteration iff
\* the should_render it read is true, so none while it is false and one in the
\* iteration in which it turned true; the initial sample of an attempt is
\* pulled whatever should_render is.
C10_SteadyPullIffVisible ==
    /\ lastPull.kind = "steady" => lastPull.sr
    /\ vpc \in {"bus", "dispatch"} => (pulled <=> srAtomic)
    /\ (vpc \in {"bus", "dispatch"} /\ flipped) => pulled

\* C10 witness: should_render turned true in the refresh of this iteration and
\* the iteration has pulled a sample, the pipeline playing again.
C10_Witness ==
    /\ vpc = "bus"
    /\ flipped
    /\ pulled
    /\ lastPull = [kind |-> "steady", sr |-> TRUE]
    /\ pstate[attempt] = "Playing"


\* C11: in the steady-state loop the state requests alternate: Paused is
\* requested only when should_render was read false while the last request
\* was Playing, Playing only when it was read true while the last request was
\* Paused; an iteration whose read differs from the read before makes exactly
\* that request, an iteration whose read is the same makes none.
C11_RequestsAlternate ==
    /\ stateReq.kind = "Paused" => ~stateReq.sr /\ stateReq.was = "Playing"
    /\ stateReq.kind = "Playing" => stateReq.sr /\ stateReq.was = "Paused"
    /\ reads[1] # "none" /\ reads[1] = reads[2] => stateReq.kind = ""
    /\ reads = <<"false", "true">> => stateReq.kind = "Playing"
    /\ reads = <<"true", "false">> => stateReq.kind = "Paused"

\* C11 witness: the probe was false and is now read true; the iteration made
\* the one Playing request, of a pipeline that was paused.
C11_Witness ==
    /\ vpc = "act"
    /\ reads = <<"false", "true">>
    /\ stateReq = [kind |-> "Playing", sr |-> TRUE, was |-> "Paused"]
    /\ pstate[attempt] = "Playing"

-----------------------------------------------------------------------------
(* Properties of the choice of the output *)

\* how well an output matches the request: 1 its name equals it, 2 its name
\* equals it up to ASCII case, 3 its description equals or holds it up to
\* ASCII case, 4 no match
MatchRank(output, requested) ==
    IF output.name # NoText /\ output.name = requested THEN 1
    ELSE IF output.name # NoText
            /\ to_ascii_lowercase(output.name) = to_ascii_lowercase(requested) THEN 2
    ELSE IF output.description # NoText
            /\ contains(to_ascii_lowercase(output.description),
                        to_ascii_lowercase(requested)) THEN 3
    ELSE 4

\* C12: with a requested monitor, the output chosen is one of the best match
\* among all bound outputs (exact name before case-insensitive name before
\* description), whatever the registry order; none is chosen iff none matches.
C12_BestMatchChosen ==
    (fnRet.done /\ fnArg.requested_monitor # NoText) =>
        LET outputs == fnArg.outputs
            requested == fnArg.requested_monitor
        IN IF \A i \in 1..Len(outputs) : MatchRank(outputs[i], requested) = 4
           THEN fnRet.index = 0
           ELSE /\ fnRet.index \in 1..Len(outputs)
                /\ \A i \in 1..Len(outputs) :
                      MatchRank(outputs[fnRet.index], requested)
                          <= MatchRank(outputs[i], requested)

-----------------------------------------------------------------------------
(* Properties of the layer surface *)

\* a dimension after the configure events of s, each non-zero value replacing
\* the one before
RECURSIVE LastNonZero(_, _, _)
LastNonZero(s, k, default) ==
    IF s = <<>> THEN default
    ELSE LastNonZero(Tail(s), k, IF Head(s)[k] > 0 THEN Head(s)[k] ELSE default)

\* C13 as claimed: once the first configure event has been processed, the
\* geometry (width, height) is the one that event left and never changes.
C13_FrozenAfterFirstConfigure ==
    configures # <<>> =>
        /\ width = LastNonZero(<<configures[1]>>, 1, DefaultWidth)
        /\ height = LastNonZero(<<configures[1]>>, 2, DefaultHeight)

\* C13 amended: the geometry of the frame pool never changes once the pool is
\* created, whatever configure events follow; it is the geometry in force when
\* the configure wait ended: per dimension the last non-zero value of the
\* configure events handled by then, else the default.
C13_PoolGeometryFixed ==
    pool # <<>> =>
        pool = <<LastNonZero(configures, 1, DefaultWidth),
                 LastNonZero(configures, 2, DefaultHeight)>>

\* C13 witness: the batch that ended the wait held two configure events of
\* different sizes, the pool has the size of the second, and a later configure
\* has changed the fields of AppState but not the pool.
C13_Witness ==
    /\ spc = "run"
    /\ Len(configures) = 2
    /\ configures[1] = <<1, 1>>
    /\ pool = <<2, 2>>
    /\ <<width, height>> = <<1, 2>>

-----------------------------------------------------------------------------
(* Properties of the picker commands *)

\* the candidates of the directory of the commands
Candidates == list_wallpapers(pdir)

\* C14: a random pick on a directory of at least two candidates that read a
\* persisted path which is one of them does not return that path; hence, when
\* no read or write of the state file failed, two random picks made one right
\* after the other never return the same path.
C14_RandomNeverRepeats ==
    LET n == Len(picks)
    IN /\ (n >= 1 /\ picks[n].kind = "random" /\ Len(Candidates) >= 2
              /\ lastBefore \in Range(Candidates))
          => picks[n].path # lastBefore
       /\ (~ioErr /\ Len(Candidates) >= 2) =>
              \A i \in 1..(n - 1) :
                  (picks[i].kind = "random" /\ picks[i + 1].kind = "random")
                      => picks[i].path # picks[i + 1].path

\* C14 witness: three random picks on the directory of three files without a
\* failure; the third returns the path of the first again.
C14_Witness ==
    /\ pdir = "trio"
    /\ ~ioErr
    /\ Len(picks) = 3
    /\ \A i \in 1..3 : picks[i].kind = "random"
    /\ picks[1].path = picks[3].path
    /\ lastBefore = picks[2].path

\* the candidate after path p in the cyclic sorted order, the first candidate
\* when p is not a candidate
CyclicSuccessor(p) ==
    IF \E i \in 1..Len(Candidates) : Candidates[i] = p
    THEN LET i == CHOOSE k \in 1..Len(Candidates) : Candidates[k] = p
         IN IF i = Len(Candidates) THEN Candidates[1] ELSE Candidates[i + 1]
    ELSE Candidates[1]

\* C15: a next pick returns the cyclic successor of the persisted path it read,
\* the first candidate when that path is not a candidate (or nothing was
\* read); so from an empty state, without an I/O failure, the k-th of
\* consecutive next picks returns candidate ((k - 1) mod n) + 1.
C15_NextRoundRobin ==
    LET n == Len(picks)
    IN Candidates # <<>> =>
         /\ (n >= 1 /\ picks[n].kind = "next")
               => picks[n].path = CyclicSuccessor(lastBefore)
         /\ (state0 = 0 /\ ~ioErr /\ \A k \in 1..n : picks[k].kind = "next")
               => \A k \in 1..n :
                     picks[k].path = Candidates[((k - 1) % Len(Candidates)) + 1]

\* C15 witness: on the directory of three files, from an empty state, four
\* next picks: the fourth wraps around to the first candidate.
C15_Witness ==
    /\ pdir = "trio"
    /\ state0 = 0
    /\ ~ioErr
    /\ Len(picks) = 4
    /\ \A k \in 1..4 : picks[k].kind = "next"
    /\ <<picks[1].path, picks[2].path, picks[3].path, picks[4].path>> = <<5, 6, 7, 5>>

-----------------------------------------------------------------------------
(* Properties of the renderer after the closed event *)

\* C16: once the closed event has set the exit flag, no further ladder attempt
\* is started, and when play_video_loop has returned it returned success; the
\* pipeline of an attempt that had reached the steady-state loop (it made its
\* first commit) has then been set to Null.
C16_ClosedEndsRenderer ==
    /\ (exit /\ vpc = "build") => attempt = 1
    /\ (exit /\ vpc = "done") =>
           /\ result = "Ok"
           /\ commits[attempt] > 0 => pstate[attempt] = "Null"

-----------------------------------------------------------------------------
(* Properties of the image fitter *)

\* C17: for every fit mode, source size and output size, the frame of
\* render_image_fit is exactly out_w x out_h pixels, so its byte length is the
\* frame_size of the pool and the write to the pool does not fail.
C17_FrameHasOutputSize ==
    fnRet.done =>
        /\ fnRet.frame.width = fnArg.out_w
        /\ fnRet.frame.height = fnArg.out_h
        /\ fnRet.frame.width * fnRet.frame.height * 4
               = frame_size(fnArg.out_w, fnArg.out_h)
        /\ fnRet.written \in {"", "Ok"}

\* C17 witness: a 3x1 image covers a 1x3 output; the frame written is 1x3.
C17_Witness ==
    /\ fnRet.done
    /\ fnArg.fit_mode = "Cover"
    /\ <<fnArg.width, fnArg.height, fnArg.out_w, fnArg.out_h>> = <<3, 1, 1, 3>>
    /\ fnRet.written = "Ok"
    /\ <<fnRet.frame.width, fnRet.frame.height>> = <<1, 3>>

\* the fitter was applied to the image of 1600x900 for 1920x1080, Contain
Scenario1600x900 ==
    /\ fnRet.done
    /\ fnArg.fit_mode = "Contain"
    /\ <<fnArg.width, fnArg.height, fnArg.out_w, fnArg.out_h>> = <<1600, 900, 1920, 1080>>

\* C18 as claimed: the image of 1600x900 fitted (Contain) to 1920x1080 fills
\* columns [0,1920) and rows [90,990), with black rows above and below.
C18_RowsFrom90To990 ==
    Scenario1600x900 =>
        /\ fnRet.frame.x = 0 /\ fnRet.frame.rw = 1920
        /\ fnRet.frame.y = 90 /\ fnRet.frame.rh = 900

\* C18 amended: the image of 1600x900 fitted (Contain) to 1920x1080 is scaled
\* by 1.2 to 1920x1080 and fills columns [0,1920) and rows [0,1080): no row is
\* left to the canvas. In general the offsets of the placed image are
\* x = floor((out_w - rw) / 2) and y = floor((out_h - rh) / 2).
C18_FillsTheOutput ==
    /\ Scenario1600x900 =>
           /\ fnRet.frame.x = 0 /\ fnRet.frame.rw = 1920
           /\ fnRet.frame.y = 0 /\ fnRet.frame.rh = 1080
    /\ (fnRet.done /\ fnArg.fit_mode \in {"Fit", "Contain"}) =>
           /\ fnRet.frame.x = (fnArg.out_w - fnRet.frame.rw) \div 2
           /\ fnRet.frame.y = (fnArg.out_h - fnRet.frame.rh) \div 2

\* C18 witness: the scenario has been computed.
C18_Witness ==
    /\ Scenario1600x900
    /\ fnRet.written = "Ok"
    /\ <<fnRet.frame.rw, fnRet.frame.rh>> = <<1920, 1080>>

\* C19 as claimed: every pixel of the frame render_image_fit returns has
\* alpha 255.
C19_FitterFrameOpaque ==
    fnRet.done => fnRet.frame.alphas \subseteq {255}

\* C19 amended: every pixel written to the pool from the fitter's frame has
\* alpha 255; the frame of render_image_fit itself carries the alpha of the
\* source image on the pixels of the image and alpha 0 on the pixels of the
\* Contain canvas outside the placed image.
C19_PoolOpaque ==
    fnRet.done =>
        /\ fnRet.written = "Ok" => fnRet.pool = {255}
        /\ fnRet.frame.alphas =
              {fnArg.alpha} \cup
              (IF fnArg.fit_mode \in {"Fit", "Contain"}
                  /\ (fnRet.frame.rw < fnArg.out_w \/ fnRet.frame.rh < fnArg.out_h)
               THEN {0} ELSE {})

\* C19 witness: a half-transparent 1x1 image contained in a 3x1 output: the
\* frame has alpha 128 on the image, 0 on the borders; the pool has 255.
C19_Witness ==
    /\ fnRet.done
    /\ fnArg.fit_mode = "Contain"
    /\ <<fnArg.width, fnArg.height, fnArg.out_w, fnArg.out_h>> = <<1, 1, 3, 1>>
    /\ fnRet.frame.alphas = {0, 128}
    /\ fnRet.written = "Ok"
    /\ fnRet.pool = {255}

-----------------------------------------------------------------------------
(* Properties of the resolution of the monitor set *)

\* C20: the monitor set is the first non-empty of: the trimmed non-blank
\* entries of `monitors`; the sorted, deduplicated trimmed keys of
\* `monitor_wallpaper_dirs`; the trimmed `monitor`; the monitors the compositor
\* reports. The compositor is asked only when the three configured sources
\* give nothing.
C20_FirstNonEmptySource ==
    fnRet.done =>
        LET c == fnArg.cfg
            r == fnRet.resolved
            listed == TrimNonBlank(c.monitors)
            keys == {Trim(k) : k \in DOMAIN c.monitor_wallpaper_dirs} \ {""}
            single == IF c.monitor = NoneStr THEN "" ELSE Trim(c.monitor)
        IN IF listed # <<>>
           THEN r.ok /\ r.monitors = listed /\ ~r.detect
           ELSE IF keys # {}
           THEN /\ r.ok /\ ~r.detect
                /\ Range(r.monitors) = keys
                /\ Len(r.monitors) = Cardinality(keys)
                /\ \A i \in 1..(Len(r.monitors) - 1) :
                      NameRank(r.monitors[i]) < NameRank(r.monitors[i + 1])
           ELSE IF single # ""
           THEN r.ok /\ r.monitors = <<single>> /\ ~r.detect
           ELSE /\ r.detect
                /\ r.ok = fnArg.detection.ok
                /\ r.ok => r.monitors = fnArg.detection.names

\* C20 witness: `monitors` holds only a blank entry, the map has the keys
\* " A", "A" and "B ", `monitor` is set and the compositor reports one monitor:
\* the set is the keys, trimmed, sorted and deduplicated.
C20_Witness ==
    /\ fnRet.done
    /\ fnArg.cfg.monitors = <<"  ">>
    /\ DOMAIN fnArg.cfg.monitor_wallpaper_dirs = {" A", "A", "B "}
    /\ fnArg.cfg.monitor = "B "
    /\ fnArg.detection = [ok |-> TRUE, names |-> <<"A">>]
    /\ fnRet.resolved = [ok |-> TRUE, monitors |-> <<"A", "B">>, detect |-> FALSE]

-----------------------------------------------------------------------------
(* Properties of the visibility probe *)

\* the active workspace of the probe's monitor: the monitor of its target id,
\* the focused monitor (else the first) when it has no target id
ProbeWorkspace ==
    LET ms == HyprMonitors(fnArg.focused)
    IN IF fnRet.target_monitor_id # 0
       THEN (CHOOSE m \in Range(ms) : m.id = fnRet.target_monitor_id).activeWorkspace
       ELSE IF fnArg.focused # 0
       THEN (CHOOSE m \in Range(ms) : m.focused).activeWorkspace
       ELSE ms[1].activeWorkspace

\* C21: right after a successful query should_render is false iff some client
\* is mapped, not hidden and on the active workspace of the probe's monitor;
\* right after a failed query of refresh_now it is the value cached before;
\* after a failed query at construction it is true.
C21_ProbeValue ==
    (fnRet.done /\ fnRet.last # "stale") =>
        /\ fnRet.query # "failed" =>
              (~fnRet.should_render <=>
                  \E c \in fnArg.clients :
                      c.mapped /\ ~c.hidden /\ c.workspace = ProbeWorkspace)
        /\ (fnRet.query = "failed" /\ fnRet.last = "refresh") =>
              fnRet.should_render = fnRet.previous
        /\ (fnRet.query = "failed" /\ fnRet.last = "new") => fnRet.should_render

\* C21 witness: the probe of monitor B holds false from an earlier reading;
\* the window has since been hidden (a mapped one sits on the other monitor's
\* workspace), but the refresh failed and the value is still false.
C21_Witness ==
    /\ fnRet.done
    /\ fnRet.target_monitor_id = 2
    /\ fnRet.last = "refresh"
    /\ fnRet.query = "failed"
    /\ ~fnRet.should_render
    /\ fnArg.clients = {[mapped |-> TRUE, hidden |-> TRUE, workspace |-> 2],
                        [mapped |-> TRUE, hidden |-> FALSE, workspace |-> 1]}


\* C22 as claimed: every surface commit comes after one successful pool write
\* made since the commit before, and a still image makes one commit in all.
C22_EveryCommitAfterWrite ==
    /\ \A i \in 1..Len(surfCommits) : surfCommits[i].writes = 1
    /\ ~is_video => Len(surfCommits) <= 1

\* C22 amended: the first surface commit, made before the configure wait,
\* carries no buffer and follows no write; every later commit attaches the
\* buffer and comes after exactly one successful pool write made since the
\* commit before; a write that fails is followed by no commit; a still image
\* makes at most one such commit, and has made it once it waits for events.
C22_FrameCommitAfterWrite ==
    /\ surfCommits[1] = [buffer |-> FALSE, writes |-> 0]
    /\ \A i \in 2..Len(surfCommits) :
          surfCommits[i].buffer /\ surfCommits[i].writes = 1
    /\ sinceCommit = 0
    /\ ~is_video =>
          /\ Len(surfCommits) <= 2
          /\ spc = "run" => Len(surfCommits) = 2

\* C22 witness: a video renderer has committed a frame, then the write of
\* the next sample failed after it had changed the mapping, and the renderer
\* ended without a further commit.
C22_Witness ==
    /\ is_video
    /\ spc = "end"
    /\ lastWrite = "Err"
    /\ fnRet.result = ErrStride
    /\ fnRet.before # mmap
    /\ surfCommits = <<[buffer |-> FALSE, writes |-> 0], [buffer |-> TRUE, writes |-> 1]>>


\* C23: a write_rgba that succeeds turns every whole input pixel (R,G,B,A)
\* into (B,G,R,255) at the same offset, leaves every byte beyond the input
\* length as it was, and writing the same input again changes nothing.
C23_SwapsOpaqueIdempotent ==
    (fnRet.done /\ fnArg.op = "rgba" /\ fnRet.result = "Ok") =>
        LET rgba == fnArg.rgba
            again == write_rgba_image_frame(mmap, rgba)
        IN /\ Len(mmap) = Len(fnRet.before)
           /\ \A p \in 0..(Len(rgba) \div 4 - 1) :
                <<mmap[4 * p + 1], mmap[4 * p + 2], mmap[4 * p + 3], mmap[4 * p + 4]>>
                  = <<rgba[4 * p + 3], rgba[4 * p + 2], rgba[4 * p + 1], Opaque>>
           /\ \A i \in (Len(rgba) + 1)..Len(mmap) : mmap[i] = fnRet.before[i]
           /\ again.result = "Ok"
           /\ again.mmap = mmap

\* C23 witness: two pixels were written into a pool of four, the other two
\* still hold the zero of the new mapping.
C23_Witness ==
    /\ fnRet.done /\ fnArg.op = "rgba" /\ fnRet.result = "Ok"
    /\ Len(fnArg.rgba) = 8
    /\ mmap = <<3, 2, 1, 255, 7, 6, 5, 255, 0, 0, 0, 0, 0, 0, 0, 0>>

SampleWithStride ==
    /\ fnRet.done /\ fnArg.op = "bgrx"
    /\ fnArg.sample.defect = "none"
    /\ fnArg.sample.stride >= fnArg.width * 4

\* C25: write_sample_bgrx on a readable sample of stride S >= W*4 fails iff
\* H*W*4 > frame_size or some row r < H has r*S + W*4 > source length; when
\* it succeeds, the W*4 bytes at source offset r*S are at pool offset r*W*4
\* for every row r < H and every other byte of the pool is unchanged; it
\* never writes at or beyond frame_size.
C25_RowCopy ==
    SampleWithStride =>
        LET src == fnArg.sample.data
            S == fnArg.sample.stride
            row_bytes == fnArg.width * 4
            H == fnArg.height
            tooLarge == H * row_bytes > Len(fnRet.before)
            shortRow == \E r \in 0..(H - 1) : r * S + row_bytes > Len(src)
        IN /\ fnRet.result # "Ok" <=> (tooLarge \/ shortRow)
           /\ Len(mmap) = Len(fnRet.before)
           /\ tooLarge => mmap = fnRet.before
           /\ fnRet.result = "Ok" =>
                /\ \A r \in 0..(H - 1) : \A j \in 1..row_bytes :
                      mmap[r * row_bytes + j] = src[r * S + j]
                /\ \A i \in (H * row_bytes + 1)..Len(mmap) : mmap[i] = fnRet.before[i]

\* C25 witness: two rows of one pixel were copied from a source whose rows
\* are six bytes apart; the two padding bytes of the first row were dropped.
C25_Witness ==
    /\ SampleWithStride
    /\ fnRet.result = "Ok"
    /\ fnArg.sample.stride = 6
    /\ fnArg.height = 2
    /\ mmap = <<1, 2, 3, 4, 7, 8, 9, 10>>


\* C26: the descriptors are attempted in list order, each at most once: an
\* attempt begins only on the descriptor after the one attempted before, and
\* no pipeline exists for a descriptor beyond the current one; when the
\* attempt on descriptor i returned a construction failure, the initial-sample
\* timeout (its pipeline then is Null) or a bus Error, the exit flag is clear
\* and i is not the last descriptor, the next step attempts descriptor i + 1.
C26_LadderInOrder ==
    [][ /\ attempt' \in {attempt, attempt + 1}
        /\ (vpc' = "build" /\ vpc # "build") => attempt' = attempt + 1
        /\ \A i \in Descriptors : pstate'[i] # "none" => i <= attempt'
        /\ (vpc' = "returned" /\ attemptRet'[attempt'] = ErrInitial)
              => pstate'[attempt'] = "Null"
        /\ ( /\ vpc = "returned"
             /\ attemptRet[attempt] \in {ErrBuild, ErrInitial, ErrBus}
             /\ ~exit
             /\ attempt < NumDescriptors )
              => (vpc' = "build" /\ attempt' = attempt + 1)
      ]_vars

\* C26 witness: the first descriptor could not be built, the second gave no
\* initial sample, the third ended on a bus Error after committing frames,
\* and the fourth is being attempted.
C26_Witness ==
    /\ attempt = 4
    /\ vpc = "build"
    /\ ~exit
    /\ attemptRet[1] = ErrBuild
    /\ attemptRet[2] = ErrInitial
    /\ attemptRet[3] = ErrBus
    /\ commits[3] > 0


\* C27: in the steady-state loop, playing or paused, an Eos message makes the
\* driver issue the flushing seek and go on with the same attempt (nothing is
\* returned, the pipeline keeps its state, the loop goes on to the dispatch),
\* and an Error message sets the pipeline to Null and ends the attempt with
\* the bus error.
C27_EosSeeksErrorEnds ==
    [][ vpc = "bus" =>
          /\ bus_msg'.paused = is_paused
          /\ bus_msg'.msg = "Eos" =>
                /\ bus_msg'.seek
                /\ vpc' = "dispatch"
                /\ attempt' = attempt
                /\ attemptRet' = attemptRet
                /\ pstate' = pstate
                /\ commits' = commits
          /\ bus_msg'.msg = "Error" =>
                /\ ~bus_msg'.seek
                /\ vpc' = "returned"
                /\ attempt' = attempt
                /\ attemptRet'[attempt] = ErrBus
                /\ pstate'[attempt] = "Null"
      ]_vars

\* C27 witness: an Eos was handled while the pipeline was playing and a frame
\* was committed after it; now a further Eos was handled while paused, and
\* the same attempt goes on.
C27_Witness ==
    /\ afterEos = "frame"
    /\ bus_msg = [msg |-> "Eos", seek |-> TRUE, paused |-> TRUE]
    /\ vpc = "dispatch"
    /\ attemptRet[attempt] = ""


\* C28: the wait sleeps in chunks of at most 1 s and never more than the
\* interval (which is at least 1 s) in all; at a chunk boundary where the
\* watched file's mtime differs from the observed one it returns at once and
\* records that mtime, else it goes on until the interval has elapsed; two
\* returns caused by a changed mtime are separated by a change of the mtime;
\* and a wait that has begun returns.
C28_WaitTerminates ==
    /\ [](interval >= 1 /\ elapsed <= interval)
    /\ [](\A i \in 1..Len(wakes) : \A j \in 1..Len(wakes) :
             i < j => wakes[i].touches < wakes[j].touches)
    /\ [][ wpc = "wait" =>
             /\ elapsed' - elapsed <= check_every
             /\ elapsed' > elapsed =>
                  IF watched /\ mtime # observed_config_mtime
                  THEN wpc' = "tick" /\ observed_config_mtime' = mtime
                  ELSE /\ observed_config_mtime' = observed_config_mtime
                       /\ wpc' = "tick" <=> elapsed' = interval
       ]_vars
    /\ (wpc = "wait" ~> wpc = "tick")

\* C28 witness: the wait returned early after 1 s of 3 on a changed mtime,
\* and the next wait, with the mtime as recorded, has slept to its end.
C28_Witness ==
    /\ wakes = <<[elapsed |-> 1, interval |-> 3, touches |-> 1]>>
    /\ touches = 1
    /\ observed_config_mtime = mtime
    /\ wpc = "tick"
    /\ elapsed = 3
    /\ interval = 3


\* some bound output has the requested name, exactly or but for ASCII case
RequestedNameBound ==
    /\ fnArg.requested_monitor # NoText
    /\ \E i \in 1..Len(bound_outputs) :
          /\ bound_outputs[i].name # NoText
          /\ eq_ignore_ascii_case(bound_outputs[i].name, fnArg.requested_monitor)

\* C29 as claimed, for a renderer that was asked for a monitor: the wait goes
\* on, up to seven roundtrips, until the requested output has a matching name
\* or every bound output carries a name or a description.
C29_WaitsForNameOrAll ==
    (dpc = "select" /\ roundtrips < MoreRoundtrips + 1
                    /\ fnArg.requested_monitor # NoText) =>
        (RequestedNameBound \/ all_outputs_have_metadata(bound_outputs))


\* C30: until a configure event has been received and acknowledged the
\* surface has only its first commit, without a buffer, and no frame pool; a
\* pool or a frame commit exists only after one; every configure event of the
\* handshake was acknowledged with its own serial; and a dimension that was 0
\* in every configure event so far still has its default, 1920 or 1080.
C30_ConfigureHandshake ==
    /\ ~configured => (pool = <<>> /\ acks = <<>>)
    /\ (pool # <<>> \/ Len(surfCommits) > 1) =>
          (configured /\ acks # <<>> /\ acks[1].acked = acks[1].serial)
    /\ \A i \in 1..Len(surfCommits) : surfCommits[i].buffer => (i > 1 /\ pool # <<>>)
    /\ Len(acks) = Len(configures)
    /\ \A i \in 1..Len(acks) : acks[i].acked = acks[i].serial /\ acks[i].serial = i
    /\ spc \in {"wait", "pool", "frame"} =>
          /\ (\A i \in 1..Len(configures) : configures[i][1] = 0) => width = DefaultWidth
          /\ (\A i \in 1..Len(configures) : configures[i][2] = 0) => height = DefaultHeight

\* C30 witness: two configure events ended the wait, both with width 0, both
\* acknowledged; the pool has the default width and the first frame is
\* committed.
C30_Witness ==
    /\ spc = "run"
    /\ acks = <<[serial |-> 1, acked |-> 1], [serial |-> 2, acked |-> 2]>>
    /\ configures = <<<<0, 2>>, <<0, 0>>>>
    /\ pool = <<DefaultWidth, 2>>
    /\ surfCommits = <<[buffer |-> FALSE, writes |-> 0], [buffer |-> TRUE, writes |-> 1]>>


\* the supervisor is at the pick for a monitor whose directory lists no media
PickFails(s) ==
    /\ pc[s] = "pick"
    /\ list_wallpapers(media_dir_for_monitor(cfg[s], monitors[s][idx[s]])) = <<>>

\* C31: a failed media pick for one monitor is confined to that monitor. The
\* step that handles it does not terminate the supervisor, records no child for
\* the monitor, touches no other child and goes on to the next monitor of the
\* set; and when the iteration reaches its wait, exactly the monitors of the
\* set whose directory lists media have a new child of this supervisor in the map.
C31_PickFailureConfined ==
    /\ [][\A s \in Sups :
            PickFails(s) /\ pc'[s] # "pick" =>
                /\ pc'[s] = (IF idx[s] < Len(monitors[s]) THEN "kill" ELSE "prune")
                /\ err'[s] = err[s]
                /\ monitors'[s] = monitors[s]
                /\ monitor_children'[s] = monitor_children[s]
                /\ monitor_children[s][monitors[s][idx[s]]] = 0
                /\ children' = children]_vars
    /\ [](\A s \in Sups :
            pc[s] = "wait" =>
                \A i \in 1..Len(monitors[s]) :
                    LET m == monitors[s][i]
                        child == monitor_children[s][m]
                    IN IF list_wallpapers(media_dir_for_monitor(cfg[s], m)) = <<>>
                       THEN child = 0
                       ELSE /\ child # 0
                            /\ children[child].owner = s
                            /\ children[child].monitor = m
                            /\ children[child] # Reaped)

\* C31 witness: an iteration over <<A, B>> has ended in which the pick for A
\* failed after an old child was killed, and B got its new renderer.
C31_Witness ==
    \E s \in Sups :
        /\ pc[s] = "wait"
        /\ cfg[s] = CfgEmptyDir
        /\ monitor_children[s]["A"] = 0
        /\ monitor_children[s]["B"] # 0
        /\ children[monitor_children[s]["B"]].status = "running"
        /\ \E c \in 1..Len(children) : children[c] = Reaped


\* C32 as claimed: in a wait step of either kind, every running child the
\* supervisor holds belongs to a monitor of the set resolved in this iteration.
C32_WaitHoldsOnlyResolvedSet ==
    \A s \in Sups :
        pc[s] \in {"wait", "waitEmpty"} =>
            \A m \in MonitorNames :
                (/\ monitor_children[s][m] # 0
                 /\ children[monitor_children[s][m]].status = "running")
                    => m \in Range(monitors[s])


\* C33 as claimed: once the supervisor loop has ended with an error, every
\* renderer child it spawned has been killed and waited for.
C33_FailedSupervisorLeavesNoChild ==
    \A s \in Sups :
        pc[s] = "failed" /\ err[s] \in {"config", "detect", "spawn"} =>
            \A c \in 1..Len(children) : children[c].owner = s => children[c] = Reaped


\* C34 as claimed: an attempt whose pipeline was set to Playing has its
\* pipeline in state Null when it has returned, whatever the return, so that at
\* most one pipeline of the ladder is not Null at any time.
C34_ReturnLeavesNull ==
    /\ \A i \in Descriptors :
           (pstate[i] # "none" /\ (i < attempt \/ vpc \in {"returned", "done"}))
               => pstate[i] = "Null"
    /\ Cardinality({i \in Descriptors : pstate[i] \in {"Playing", "Paused"}}) <= 1


\* C35 as claimed: a write_sample_bgrx that fails because the frame is larger
\* than the pool or because a source row runs past the end of the source
\* leaves every byte of the mapping as it was before the call.
C35_FailedWriteLeavesMapping ==
    (fnRet.done /\ fnArg.op = "bgrx" /\ fnRet.result \in {ErrVideoLarger, ErrStride})
        => mmap = fnRet.before


-----------------------------------------------------------------------------
(* Properties of the renderer's output and its visibility probe *)

\* C36 as claimed: when the requested monitor name selected an output and
\* every hyprctl call of the probe succeeded, the probe holds the id of the
\* monitor of that output and its query read that monitor's active workspace.
C36_ProbeGatesSelectedMonitor ==
    (fnRet.done /\ fnArg.target # NoneStr /\ fnRet.hyprctl) =>
        /\ fnRet.target_monitor_id = fnRet.selected
        /\ \E i \in 1..2 :
              /\ HyprMonitors(fnArg.focused)[i].id = fnRet.selected
              /\ HyprMonitors(fnArg.focused)[i].activeWorkspace = fnRet.workspace

=============================================================================
